---- MODULE Spec2Model ----
(***************************************************************************)
(* A model of github.com/wzshiming/vsh: the in-memory virtual filesystem   *)
(* (fs/fs_mem.go), alone, as a snapshot of a source tree (fs/fs.go) and    *)
(* under concurrent callers, the PATH lookup of the command dispatcher     *)
(* (handler.go), the lifecycle of the Runner (WithParams / Reset / Run /   *)
(* Subshell) with its background jobs, and the builtins cat, rm and ls.    *)
(*                                                                         *)
(* Paths are sequences of segments: the cleansed string "a/b" is           *)
(* <<"a", "b">> and the empty string is <<>>.  Bytes are small naturals.   *)
(* Modification times (time.Now) are not part of the model.                *)
(***************************************************************************)
EXTENDS Integers, Sequences, FiniteSets, TLC

VARIABLES
    dirs,      \* memFS: every directory below the root, path -> info.mode
    files,     \* memFS: dir.files of every directory, path -> *file
    heap,      \* the file objects, *file -> [size, mode, content]
    arrs,      \* the backing arrays of the byte slices, id -> [cap, data]
    open,      \* the sessions handed out by OpenFile, id -> fileAccess
    log,       \* per session: how it was opened and what it has written
    ret,       \* the last call of the filesystem and what it returned
    opened     \* the files of the source of a snapshot opened so far, and why

vfsVars == <<dirs, files, heap, arrs, open, log, ret, opened>>

VARIABLES
    PATH,      \* the value of the PATH variable of the environment
    cwd,       \* the current directory handed to the lookup
    host,      \* the files of the host operating system, path -> node
    last,      \* the lookup made since PATH, cwd or the host last changed
    first      \* the first lookup of each command since PATH or cwd changed

pathVars == <<PATH, cwd, host, last, first>>

VARIABLES
    runners,   \* the Runners made so far, by id
    outcome,   \* what Run returned, if the last call on a Runner was a Run
    forks,     \* for each Runner made by Subshell, what its parent held then
    epoch,     \* how many subshells each Runner has made so far
    procs      \* the background jobs started so far: done, exit and the goroutine

runnerVars == <<runners, outcome, forks, epoch, procs>>

VARIABLES
    nodes,     \* memFS under concurrent callers: the dirs and files, with their locks
    threads,   \* per goroutine: the call it is in and how far it has come
    did,       \* the last change of a node, and whether its lock was held for it
    fault      \* what ended the process, "none" while it runs

concVars == <<nodes, threads, did, fault>>

vars == <<vfsVars, pathVars, runnerVars, concVars>>

----------------------------------------------------------------------------
(* Bounds of the model.                                                    *)

MaxFiles == 2       \* file objects alive at once
MaxSessions == 1    \* sessions open at once
MaxWrites == 2      \* Write calls of one session
MaxPathTokens == 3  \* length of the PATH variable, in entries and colons
MaxRunners == 2     \* Runners alive: the first one and its subshells
MaxJobs == 2        \* background jobs in the list of one Runner
MaxProcs == 3       \* background jobs started in all
MaxDirs == 2        \* directories on the directory stack of one Runner
MaxName == 5        \* characters of a name handed to cleanse
MaxArgList == 2     \* arguments of one builtin
MaxArgs == 3        \* arguments of one WithParams
MaxThreads == 2     \* goroutines calling one memFS
MaxCalls == 1       \* calls of one goroutine

Names == {"a", "b"}

\* Go compares strings bytewise: "" < "a" < "b".
Rank(n) == CASE n = "" -> 0 [] n = "a" -> 1 [] n = "b" -> 2

bufferSize == 256

\* the size every directory reports
dirSize == 256

\* An fs.FileMode is [perm, dir]: the nine permission bits and whether the
\* fs.ModeDir bit (1 << 31) is set.
Mode(perm, dir) == [perm |-> perm, dir |-> dir]

\* 0777 | fs.ModeDir
RootMode == Mode(511, TRUE)

DirPerms == {Mode(493, FALSE), Mode(493, TRUE)}

Long == [i \in 1..(bufferSize + 1) |-> 3]

\* payloads: empty, one byte, and one byte longer than bufferSize
Payloads == {<<>>, <<1>>, Long}

\* the cleansed paths the calls are given: "", "a", "b", "a/a", "a/b"
Paths == {<<>>} \cup {<<n>> : n \in Names} \cup {<<"a", n>> : n \in Names}

Max(x, y) == IF x >= y THEN x ELSE y

MinOf(S) == CHOOSE x \in S : \A y \in S : x <= y

----------------------------------------------------------------------------
(* Errors.                                                                 *)

Nil == [kind |-> "nil", op |-> "", path |-> <<>>, ctx |-> FALSE]

\* a bare sentinel: fs.ErrNotExist, fs.ErrExist, fs.ErrInvalid, or fmt.Errorf
Bare(kind) == [kind |-> kind, op |-> "", path |-> <<>>, ctx |-> FALSE]

\* &fs.PathError{Op: op, Path: path, Err: kind}
PathError(op, path, kind) == [kind |-> kind, op |-> op, path |-> path, ctx |-> TRUE]

----------------------------------------------------------------------------
(* strings.Split(name, "/") and strings.Join(parts[1:], "/").              *)

Split(name) == IF name = <<>> THEN <<"">> ELSE name

Rest(parts) == Tail(parts)

----------------------------------------------------------------------------
(* The tree.  t is the record of the four tree variables.                  *)

VFS == [dirs |-> dirs, files |-> files, heap |-> heap, arrs |-> arrs, opened |-> opened]

\* d.files[name] and d.dirs[name] of the directory at position d
HasFile(t, d, name) == Append(d, name) \in DOMAIN t.files
HasDir(t, d, name) == Append(d, name) \in DOMAIN t.dirs

ChildFiles(t, d) == {p \in DOMAIN t.files : Len(p) = Len(d) + 1 /\ SubSeq(p, 1, Len(d)) = d}
ChildDirs(t, d) == {p \in DOMAIN t.dirs : Len(p) = Len(d) + 1 /\ SubSeq(p, 1, Len(d)) = d}

IsPrefix(d, p) == Len(d) <= Len(p) /\ SubSeq(p, 1, Len(d)) = d

Restrict(f, S) == [x \in S |-> f[x]]

\* the directory at position d exists (the root always does)
DirExists(t, d) == d = <<>> \/ d \in DOMAIN t.dirs

RECURSIVE getDir(_, _, _)
getDir(t, d, name) ==
    IF name = <<>> THEN [ok |-> TRUE, dir |-> d]
    ELSE LET parts == Split(name)
         IN IF HasDir(t, d, parts[1])
            THEN getDir(t, Append(d, parts[1]), Rest(parts))
            ELSE [ok |-> FALSE, dir |-> <<>>]

RECURSIVE getFile(_, _, _)
getFile(t, d, name) ==
    LET parts == Split(name)
    IN IF Len(parts) = 1
       THEN IF HasFile(t, d, parts[1])
            THEN [ok |-> TRUE, file |-> t.files[Append(d, parts[1])]]
            ELSE [ok |-> FALSE, file |-> 0]
       ELSE LET sub == getDir(t, d, <<parts[1]>>)
            IN IF sub.ok
               THEN getFile(t, sub.dir, Rest(parts))
               ELSE [ok |-> FALSE, file |-> 0]

----------------------------------------------------------------------------
(* Byte slices.  A slice is [arr, len]: the first len bytes of the array   *)
(* arr.  An array is [cap, data]: its capacity and the bytes written to it *)
(* so far (the bytes past them are never read).                            *)

Bytes(t, slice) == SubSeq(t.arrs[slice.arr].data, 1, slice.len)

FreshId(used) == MinOf({i \in 1..(Cardinality(used) + 1) : i \notin used})

\* copy(array[off:], data) on the written bytes of an array
CopyAt(old, off, data) ==
    SubSeq(old, 1, off) \o data \o SubSeq(old, off + Len(data) + 1, Len(old))

\* bytes.Buffer.Write(data) on a buffer whose bytes are the slice buf and
\* whose read offset is 0: reslice within the capacity, else growSlice.
BufferWrite(as, buf, data) ==
    LET n == Len(data)
        a == as[buf.arr]
    IN IF n <= a.cap - buf.len
       THEN [arrs |-> [as EXCEPT ![buf.arr].data = CopyAt(a.data, buf.len, data)],
             buf |-> [arr |-> buf.arr, len |-> buf.len + n]]
       ELSE LET id == FreshId(DOMAIN as)
                c == Max(buf.len + n, 2 * a.cap)
            IN [arrs |-> as @@ (id :> [cap |-> c,
                                       data |-> SubSeq(a.data, 1, buf.len) \o data]),
                buf |-> [arr |-> id, len |-> buf.len + n]]

NoBuf == [arr |-> 0, len |-> 0]

\* The source tree of a snapshot, in the order fs.WalkDir visits it: the
\* root, the directory a with the file a/a in it, and the file b.
BaseFS ==
    << [path |-> <<>>, dir |-> TRUE, data |-> <<>>],
       [path |-> <<"a">>, dir |-> TRUE, data |-> <<>>],
       [path |-> <<"a", "a">>, dir |-> FALSE, data |-> <<7>>],
       [path |-> <<"b">>, dir |-> FALSE, data |-> <<8, 9>>] >>

\* the bytes of the file of the source at path
BaseBytes(path) == BaseFS[CHOOSE i \in DOMAIN BaseFS : BaseFS[i].path = path].data

\* the opener SnapshotFS stores, called from by ("Read" or "Write"):
\* base.Open(path)
baseOpen(t, path, by) == [t EXCEPT !.opened = @ \cup {[path |-> path, by |-> by]}]

\* lazyAccess.Write: la is [file, writer]; the first Write of a lazyAccess
\* wraps the file's content in a bytes.Buffer and resets it.
lazyAccessWrite(t, la, data) ==
    LET w0 == IF la.writer = NoBuf
              THEN [arr |-> t.heap[la.file].content.arr, len |-> 0]
              ELSE la.writer
        w == BufferWrite(t.arrs, w0, data)
    IN [t |-> [t EXCEPT !.arrs = w.arrs, !.heap[la.file].content = w.buf],
        la |-> [la EXCEPT !.writer = w.buf],
        n |-> Len(data)]

\* file.overwrite: opens a fresh fileAccess, sets the metadata, then writes
\* the data through it while any is left.
overwrite(t, f, data, perm) ==
    IF t.heap[f].opener = "nil"
    THEN [t |-> t, err |-> Bare("missing opener")]
    ELSE LET t1 == [t EXCEPT !.heap[f].size = Len(data), !.heap[f].mode = perm]
         IN IF Len(data) = 0 THEN [t |-> t1, err |-> Nil]
            ELSE IF t.heap[f].opener = "base"
            THEN [t |-> baseOpen(t1, t.heap[f].src, "Write"), err |-> Bare("cannot write")]
            ELSE [t |-> lazyAccessWrite(t1, [file |-> f, writer |-> NoBuf], data).t,
                  err |-> Nil]

RECURSIVE dirWriteFile(_, _, _, _, _)
dirWriteFile(t, d, path, data, perm) ==
    LET parts == Split(path)
    IN IF perm.dir
       THEN [t |-> t, err |-> Bare("invalid perm")]
       ELSE IF Len(parts) = 1
       THEN LET key == Append(d, parts[1])
            IN IF key \in DOMAIN t.files
               THEN overwrite(t, t.files[key], data, perm)
               ELSE LET f == FreshId(DOMAIN t.heap)
                        a == FreshId(DOMAIN t.arrs)
                    IN [t |-> [t EXCEPT
                                 !.files = t.files @@ (key :> f),
                                 !.heap = t.heap @@ (f :> [name |-> parts[1],
                                                           size |-> Len(data),
                                                           mode |-> perm,
                                                           opener |-> "lazyAccess",
                                                           content |-> [arr |-> a, len |-> Len(data)]]),
                                 !.arrs = t.arrs @@ (a :> [cap |-> Max(bufferSize, Len(data)),
                                                           data |-> data])],
                        err |-> Nil]
       ELSE IF ~HasDir(t, d, parts[1])
       THEN [t |-> t, err |-> Bare("ErrNotExist")]
       ELSE dirWriteFile(t, Append(d, parts[1]), Rest(parts), data, perm)

\* dir.writeLazyFile: the file at path is a new one with no content and the
\* opener of the file of the source at src
RECURSIVE dirWriteLazyFile(_, _, _, _, _)
dirWriteLazyFile(t, d, path, src, perm) ==
    LET parts == Split(path)
    IN IF perm.dir
       THEN [t |-> t, err |-> Bare("invalid perm")]
       ELSE IF Len(parts) = 1
       THEN LET f == FreshId(DOMAIN t.heap)
            IN [t |-> [t EXCEPT
                         !.files = (Append(d, parts[1]) :> f) @@ t.files,
                         !.heap = t.heap @@ (f :> [name |-> parts[1], size |-> 0,
                                                   mode |-> perm, opener |-> "base",
                                                   content |-> NoBuf, src |-> src])],
                err |-> Nil]
       ELSE IF ~HasDir(t, d, parts[1])
       THEN [t |-> t, err |-> Bare("ErrNotExist")]
       ELSE dirWriteLazyFile(t, Append(d, parts[1]), Rest(parts), src, perm)

RECURSIVE dirMkdirAll(_, _, _, _)
RECURSIVE walkDir(_, _, _)

\* newMemFS(): the root alone
newMemFS == [dirs |-> <<>>, files |-> <<>>, heap |-> <<>>, arrs |-> <<>>, opened |-> {}]

\* SnapshotFS: fs.WalkDir over base; d.Type().Perm() has no permission bit
SnapshotFS(base) == walkDir(newMemFS, base, 1)

dirMkdirAll(t, d, path, perm) ==
    LET parts == Split(path)
    IN IF path = <<>>
       THEN [t |-> t, err |-> Nil]
       ELSE IF HasFile(t, d, parts[1])
       THEN [t |-> t, err |-> Bare("ErrExist")]
       ELSE LET mode == IF ~perm.dir THEN [perm EXCEPT !.dir = TRUE] ELSE perm
                key == Append(d, parts[1])
                t1 == IF key \in DOMAIN t.dirs
                      THEN t
                      ELSE [t EXCEPT !.dirs = t.dirs @@ (key :> mode)]
            IN IF Len(parts) = 1
               THEN [t |-> t1, err |-> Nil]
               ELSE dirMkdirAll(t1, key, Rest(parts), mode)

\* the function SnapshotFS hands to fs.WalkDir, on the entries from the i-th
walkDir(t, base, i) ==
    IF i > Len(base) THEN t
    ELSE LET e == base[i]
             r == IF e.dir
                  THEN dirMkdirAll(t, <<>>, e.path, Mode(0, FALSE))
                  ELSE dirWriteLazyFile(t, <<>>, e.path, e.path, Mode(0, FALSE))
         IN IF r.err = Nil THEN walkDir(r.t, base, i + 1) ELSE r.t

\* the subtree below the directory at position p leaves the tree with it
Detach(t, p) ==
    [t EXCEPT !.dirs = Restrict(t.dirs, {q \in DOMAIN t.dirs : ~IsPrefix(p, q)}),
              !.files = Restrict(t.files, {q \in DOMAIN t.files : ~IsPrefix(p, q)})]

RECURSIVE removePath(_, _, _, _)
removePath(t, d, name, recursive) ==
    LET parts == Split(name)
    IN IF Len(parts) = 1
       THEN LET key == Append(d, parts[1])
            IN IF key \in DOMAIN t.files
               THEN [t |-> [t EXCEPT !.files = Restrict(t.files, DOMAIN t.files \ {key})],
                     err |-> Nil]
               ELSE IF getDir(t, d, <<parts[1]>>).ok
               THEN IF ChildDirs(t, key) = {} /\ ChildFiles(t, key) = {}
                    THEN [t |-> Detach(t, key), err |-> Nil]
                    ELSE IF recursive
                    THEN [t |-> Detach(t, key), err |-> Nil]
                    ELSE [t |-> t, err |-> Bare("ErrInvalid")]
               ELSE [t |-> t, err |-> Bare("ErrNotExist")]
       ELSE LET sub == getDir(t, d, <<parts[1]>>)
            IN IF ~sub.ok
               THEN [t |-> t, err |-> Bare("ErrNotExist")]
               ELSE removePath(t, sub.dir, Rest(parts), recursive)

dirRemove(t, name) ==
    IF name = <<>> THEN [t |-> t, err |-> Nil] ELSE removePath(t, <<>>, name, FALSE)

dirRemoveAll(t, name) ==
    IF name = <<>> THEN [t |-> t, err |-> Nil] ELSE removePath(t, <<>>, name, TRUE)

----------------------------------------------------------------------------
(* The calls that only read.                                               *)

FileInfo(t, f) == [name |-> t.heap[f].name, size |-> t.heap[f].size, mode |-> t.heap[f].mode]

DirInfo(t, d) ==
    IF d = <<>>
    THEN [name |-> ".", size |-> dirSize, mode |-> RootMode]
    ELSE [name |-> d[Len(d)], size |-> dirSize, mode |-> t.dirs[d]]

\* memFS.Stat
Stat(t, name) ==
    LET f == getFile(t, <<>>, name)
        d == getDir(t, <<>>, name)
    IN IF f.ok THEN [err |-> Nil, out |-> <<FileInfo(t, f.file)>>]
       ELSE IF d.ok THEN [err |-> Nil, out |-> <<DirInfo(t, d.dir)>>]
       ELSE [err |-> PathError("stat", name, "ErrNotExist"), out |-> <<>>]

\* the orders in which a range over a map may visit the keys S
Orders(S) == {o \in [1..Cardinality(S) -> S] : \A i, j \in DOMAIN o : i # j => o[i] # o[j]}

\* entries[i].Name() < entries[j].Name()
NameLess(x, y) == Rank(x.name) < Rank(y.name)

\* insertionSortLessFunc of package sort, which sort.Slice runs on a short slice
RECURSIVE InsertLess(_, _)
InsertLess(sorted, e) ==
    IF sorted = <<>> THEN <<e>>
    ELSE LET hi == sorted[Len(sorted)]
         IN IF NameLess(e, hi)
            THEN Append(InsertLess(SubSeq(sorted, 1, Len(sorted) - 1), e), hi)
            ELSE Append(sorted, e)

\* a ReadDir that forgets to sort
SortSliceSkipped(entries) == entries

RECURSIVE SortSlice(_)
SortSlice(entries) ==
    IF entries = <<>> THEN <<>>
    ELSE InsertLess(SortSlice(SubSeq(entries, 1, Len(entries) - 1)), entries[Len(entries)])

\* dir.ReadDir; fo and do are the orders in which the two maps are ranged over
RECURSIVE dirReadDir(_, _, _, _, _)
dirReadDir(t, d, name, fo, do) ==
    IF name = <<>>
    THEN LET entries == [i \in 1..Len(fo) |-> FileInfo(t, t.files[fo[i]])]
                        \o [i \in 1..Len(do) |-> DirInfo(t, do[i])]
         IN [err |-> Nil, out |-> SortSlice(entries), dir |-> d]
    ELSE LET parts == Split(name)
         IN IF ~HasDir(t, d, parts[1])
            THEN [err |-> Bare("ErrNotExist"), out |-> <<>>, dir |-> d]
            ELSE dirReadDir(t, Append(d, parts[1]), Rest(parts), fo, do)

\* memFS.ReadFile: dir.Open, then io.ReadAll of what it returned
ReadFile(t, name) ==
    LET f == getFile(t, <<>>, name)
        d == getDir(t, <<>>, name)
    IN IF name = <<>> THEN [err |-> Bare("ErrInvalid"), out |-> <<>>]
       ELSE IF f.ok
       THEN IF t.heap[f.file].opener = "nil"
            THEN [err |-> Bare("missing opener"), out |-> <<>>]
            ELSE IF t.heap[f.file].opener = "base"
            THEN [err |-> Nil, out |-> BaseBytes(t.heap[f.file].src)]
            ELSE [err |-> Nil, out |-> Bytes(t, t.heap[f.file].content)]
       ELSE IF d.ok THEN [err |-> Bare("ErrInvalid"), out |-> <<>>]
       ELSE [err |-> PathError("open", name, "ErrNotExist"), out |-> <<>>]

----------------------------------------------------------------------------
(* Sessions.  A fileAccess is [file, reader]: reader is NoAccess until the *)
(* first Write, then the lazyAccess the file's opener returned.            *)

NoAccess == [file |-> 0, writer |-> NoBuf]

\* file.open
fileOpen(t, f) ==
    IF t.heap[f].opener = "nil"
    THEN [t |-> t, err |-> Bare("missing opener"), file |-> 0]
    ELSE [t |-> t, err |-> Nil, file |-> f]

\* memFS.OpenFile with flag&os.O_CREATE and flag&os.O_TRUNC
OpenFile(t, name, create, trunc, perm) ==
    LET f == getFile(t, <<>>, name)
    IN IF f.ok
       THEN IF trunc
            THEN LET w == dirWriteFile(t, <<>>, name, <<>>, perm)
                 IN IF w.err # Nil
                    THEN [t |-> w.t, err |-> w.err, file |-> 0]
                    ELSE fileOpen(w.t, f.file)
            ELSE fileOpen(t, f.file)
       ELSE IF create
       THEN LET w == dirWriteFile(t, <<>>, name, <<>>, perm)
                g == getFile(w.t, <<>>, name)
            IN IF w.err # Nil
               THEN [t |-> w.t, err |-> w.err, file |-> 0]
               ELSE IF g.ok
               THEN fileOpen(w.t, g.file)
               ELSE [t |-> w.t, err |-> PathError("openfile", name, "ErrNotExist"), file |-> 0]
       ELSE [t |-> t, err |-> PathError("openfile", name, "ErrNotExist"), file |-> 0]

\* the file of the source an opener of SnapshotFS returned, read up to pos
BaseFile(f, pos) == [file |-> f, writer |-> NoBuf, pos |-> pos]

\* fileAccess.Write: the first Write asks the opener for the lazyAccess; a
\* file of the source is opened for reading and takes no Write
fileAccessWrite(t, fa, data) ==
    LET la == IF fa.reader = NoAccess
              THEN [file |-> fa.file, writer |-> NoBuf]
              ELSE fa.reader
        w == lazyAccessWrite(t, la, data)
    IN IF t.heap[fa.file].opener = "base"
       THEN [t |-> IF fa.reader = NoAccess THEN baseOpen(t, t.heap[fa.file].src, "Write") ELSE t,
             fa |-> IF fa.reader = NoAccess THEN [fa EXCEPT !.reader = BaseFile(fa.file, 0)] ELSE fa,
             n |-> 0, err |-> Bare("cannot write")]
       ELSE [t |-> w.t, fa |-> [fa EXCEPT !.reader = w.la], n |-> w.n, err |-> Nil]

\* fileAccess.Read on a file of a snapshot, into a buffer that takes all
\* that is left: the fresh Read asks the opener for the file of the source
fileAccessRead(t, fa) ==
    LET fresh == fa.reader = NoAccess
        r == IF fresh THEN BaseFile(fa.file, 0) ELSE fa.reader
        bytes == BaseBytes(t.heap[fa.file].src)
    IN [t |-> IF fresh THEN baseOpen(t, t.heap[fa.file].src, "Read") ELSE t,
        fa |-> [fa EXCEPT !.reader = [r EXCEPT !.pos = Len(bytes)]],
        out |-> SubSeq(bytes, r.pos + 1, Len(bytes))]

----------------------------------------------------------------------------
(* The state machine of the filesystem.                                    *)

\* what the garbage collector keeps: the file objects and arrays in reach
LiveFiles(t, ss) == {t.files[p] : p \in DOMAIN t.files} \cup {ss[s].file : s \in DOMAIN ss}

LiveArrs(t, ss) ==
    ({t.heap[f].content.arr : f \in LiveFiles(t, ss)}
     \cup {ss[s].reader.writer.arr : s \in {x \in DOMAIN ss : ss[x].reader # NoAccess}})
    \cap DOMAIN t.arrs

Collect(t, ss) ==
    LET lf == LiveFiles(t, ss)
        t1 == [t EXCEPT !.heap = Restrict(t.heap, lf)]
    IN [t1 EXCEPT !.arrs = Restrict(t.arrs, LiveArrs(t1, ss))]

\* the tree becomes t, the sessions ss
Becomes(t, ss) ==
    LET c == Collect(t, ss)
    IN /\ Cardinality(DOMAIN c.heap) <= MaxFiles
       /\ dirs' = c.dirs
       /\ files' = c.files
       /\ heap' = c.heap
       /\ arrs' = c.arrs
       /\ opened' = c.opened
       /\ open' = ss

\* strings.Split(p, "/"), with cur the element being read
RECURSIVE splitPath(_, _)
splitPath(p, cur) ==
    IF p = <<>> THEN <<cur>>
    ELSE IF Head(p) = "/" THEN <<cur>> \o splitPath(Tail(p), <<>>)
    ELSE splitPath(Tail(p), Append(cur, Head(p)))

\* strings.Join(es, "/")
RECURSIVE joinPath(_)
joinPath(es) ==
    IF es = <<>> THEN <<>>
    ELSE IF Len(es) = 1 THEN es[1]
    ELSE es[1] \o <<"/">> \o joinPath(Tail(es))

\* path.Clean on the elements es of a path, out being the elements kept so
\* far: empty elements and . go, .. takes the element before it with it,
\* goes itself at the root, and stays at the start of a path that is not
\* rooted
RECURSIVE cleanElems(_, _, _)
cleanElems(es, out, rooted) ==
    IF es = <<>> THEN out
    ELSE LET e == Head(es)
         IN IF e = <<>> \/ e = <<".">> THEN cleanElems(Tail(es), out, rooted)
            ELSE IF e # <<".", ".">> THEN cleanElems(Tail(es), Append(out, e), rooted)
            ELSE IF out # <<>> /\ out[Len(out)] # <<".", ".">>
                 THEN cleanElems(Tail(es), SubSeq(out, 1, Len(out) - 1), rooted)
            ELSE IF rooted THEN cleanElems(Tail(es), out, rooted)
            ELSE cleanElems(Tail(es), Append(out, e), rooted)

\* path.Clean(p)
pathClean(p) ==
    LET rooted == p # <<>> /\ Head(p) = "/"
        kept == joinPath(cleanElems(splitPath(p, <<>>), <<>>, rooted))
    IN IF rooted THEN <<"/">> \o kept
       ELSE IF kept = <<>> THEN <<".">>
       ELSE kept

\* strings.HasPrefix(p, prefix)
HasPrefix(p, prefix) == Len(p) >= Len(prefix) /\ SubSeq(p, 1, Len(prefix)) = prefix

\* strings.TrimPrefix(p, prefix)
TrimPrefix(p, prefix) ==
    IF HasPrefix(p, prefix) THEN SubSeq(p, Len(prefix) + 1, Len(p)) ELSE p

\* a cleanse that leaves the slash of a rooted name
cleanseRooted(p) ==
    LET q == TrimPrefix(pathClean(p), <<".", "/">>)
    IN IF q = <<".">> THEN <<>> ELSE q

\* cleanse(p): the name as the directories of a memFS look it up
cleanse(p) ==
    LET q == TrimPrefix(TrimPrefix(pathClean(p), <<".", "/">>), <<"/">>)
    IN IF q = <<".">> THEN <<>> ELSE q

Call(op, path, data, err, out) ==
    [op |-> op, path |-> path, data |-> data, err |-> err, out |-> out]

\* another caller wrote to the file object f: the sessions on it are no
\* longer its only writers since they opened
Disturb(lg, ss, f, except) ==
    [s \in DOMAIN lg |->
        IF ss[s].file = f /\ s # except THEN [lg[s] EXCEPT !.alone = FALSE] ELSE lg[s]]

\* the file object a whole-file write to name lands in, 0 if none
Target(t, name) == LET f == getFile(t, <<>>, name) IN IF f.ok THEN f.file ELSE 0

----------------------------------------------------------------------------
(* Concurrent callers of one memFS.  The tree is a graph of objects, each  *)
(* with its sync.RWMutex; a goroutine steps through its call from one lock *)
(* operation to the next.  A critical section that calls nothing is one    *)
(* step, taken when the lock is free.  The RWMutex lets a reader in while  *)
(* no writer holds it: that a waiting writer holds new readers back only   *)
(* makes callers wait longer.  Two accesses to one map, one of them a      *)
(* write made without the lock, are a data race when they overlap.         *)

Unlocked == [w |-> 0, r |-> {}]

\* a *dir and a *file; depth is the length of the path it was made at
DirNode(depth, ds, fs) ==
    [kind |-> "dir", depth |-> depth, dirs |-> ds, files |-> fs,
     content |-> <<>>, size |-> dirSize, lock |-> Unlocked]

FileNode(depth, data) ==
    [kind |-> "file", depth |-> depth, dirs |-> <<>>, files |-> <<>>,
     content |-> data, size |-> Len(data), lock |-> Unlocked]

\* m.dir
Root == 1

\* the tree the callers start on: a/ with the file a/a, and the file b
ConcTree ==
    << DirNode(0, ("a" :> 2), ("b" :> 3)), DirNode(1, <<>>, ("a" :> 4)),
       FileNode(1, <<1>>), FileNode(2, <<1>>) >>

Goroutines == 1..MaxThreads

\* a goroutine that is in no call
Idle ==
    [op |-> "", path |-> <<>>, data |-> <<>>, create |-> FALSE, trunc |-> FALSE,
     pc |-> "idle", phase |-> 0, at |-> 0, rest |-> <<>>, file |-> 0, sub |-> 0,
     todo |-> <<>>, inFiles |-> FALSE, held |-> <<>>, ordered |-> TRUE,
     err |-> "", calls |-> 0]

\* the call returned err; the deferred unlocks have run
Done(th, err) ==
    [Idle EXCEPT !.op = th.op, !.path = th.path, !.data = th.data,
                 !.create = th.create, !.trunc = th.trunc, !.pc = "done",
                 !.err = err, !.ordered = th.ordered, !.calls = th.calls]

NoMutation == [t |-> 0, node |-> 0, excl |-> TRUE]

\* goroutine t changed the state of node n; locked: inside n.Lock() of its own
Mutated(ns, t, n, locked) == [t |-> t, node |-> n, excl |-> locked \/ ns[n].lock.w = t]

\* an access to the map (dirs or files) of a node, "r" or "w"
Acc(n, map, mode) == [node |-> n, map |-> map, mode |-> mode]

\* RLock and Lock return at once
CanR(ns, n) == ns[n].lock.w = 0
CanW(ns, n) == ns[n].lock.w = 0 /\ ns[n].lock.r = {}

\* th takes the lock of n: in parent-to-child order if every lock it holds
\* is that of a node nearer to the root
Took(ns, th, n) ==
    [th EXCEPT !.ordered = @ /\ \A i \in DOMAIN th.held : ns[th.held[i]].depth < ns[n].depth]

\* th keeps the lock of n until it returns (defer) or gives it back
Keeps(ns, th, n) == [Took(ns, th, n) EXCEPT !.held = Append(th.held, n)]

Hold(ns, t, n, mode) ==
    [ns EXCEPT ![n].lock = IF mode = "w" THEN [@ EXCEPT !.w = t]
                           ELSE [@ EXCEPT !.r = @ \cup {t}]]

Release(ns, t, n) ==
    [ns EXCEPT ![n].lock = [w |-> IF @.w = t THEN 0 ELSE @.w, r |-> @.r \ {t}]]

ReleaseAll(ns, t) ==
    [n \in DOMAIN ns |->
        [ns[n] EXCEPT !.lock = [w |-> IF @.w = t THEN 0 ELSE @.w, r |-> @.r \ {t}]]]

\* what a step does: it waits for a lock, or panics on a nil *dir, or goes
\* on, with the mutation it made and the maps it touched
Waits == [ok |-> FALSE, nil |-> FALSE, ns |-> <<>>, th |-> Idle, did |-> NoMutation, acc |-> {}]
Panics == [ok |-> TRUE, nil |-> TRUE, ns |-> <<>>, th |-> Idle, did |-> NoMutation, acc |-> {}]
Goes(ns, th, d, acc) == [ok |-> TRUE, nil |-> FALSE, ns |-> ns, th |-> th, did |-> d, acc |-> acc]

\* the call returns err
Returns(ns, th, t, err, d, acc) == Goes(ReleaseAll(ns, t), Done(th, err), d, acc)

\* the start of m.dir.<fn>(cleanse(name))
Enter(th, pc, phase) ==
    [th EXCEPT !.pc = pc, !.phase = phase, !.at = Root, !.rest = th.path, !.held = <<>>,
               !.sub = 0]

\* What the caller of getFile and getDir does with what they return:
\* memFS.Stat, dir.Open and memFS.OpenFile.
After(th, what, n) ==
    CASE what = "file" /\ th.op = "Stat" -> [th EXCEPT !.pc = "fileStat", !.file = n]
      [] what = "file" /\ th.op = "Open" -> [th EXCEPT !.pc = "fileOpen", !.file = n]
      [] what = "file" /\ th.op = "OpenFile" /\ th.phase = 1 /\ th.trunc ->
             [Enter(th, "WriteFile", 2) EXCEPT !.file = n]
      [] what = "file" /\ th.op = "OpenFile" -> [th EXCEPT !.pc = "fileOpen", !.file = n]
      [] what = "nofile" /\ th.op \in {"Stat", "Open"} -> Enter(th, "getDir", 2)
      [] what = "nofile" /\ th.op = "OpenFile" /\ th.phase = 1 /\ th.create ->
             Enter(th, "WriteFile", 3)
      [] what = "nofile" /\ th.op = "OpenFile" -> Done(th, "ErrNotExist")
      [] what = "dir" /\ th.op = "Stat" -> [th EXCEPT !.pc = "dirStat", !.at = n]
      [] what = "dir" /\ th.op = "Open" -> Done(th, "")
      [] what = "nodir" -> Done(th, "ErrNotExist")

\* dir.getFile, one directory of the path per step
stepGetFile(ns, th, t) ==
    LET d == th.at
        name == th.rest[1]
        o == Took(ns, th, d)
    IN IF ~CanR(ns, d) THEN Waits
       ELSE IF Len(th.rest) = 1
       THEN Goes(ns, IF name \in DOMAIN ns[d].files
                     THEN After(o, "file", ns[d].files[name])
                     ELSE After(o, "nofile", 0),
                 NoMutation, {Acc(d, "files", "r")})
       ELSE Goes(ns, IF name \in DOMAIN ns[d].dirs
                     THEN [o EXCEPT !.at = ns[d].dirs[name], !.rest = Tail(@)]
                     ELSE After(o, "nofile", 0),
                 NoMutation, {Acc(d, "dirs", "r")})

\* dir.getDir, one directory of the path per step
stepGetDir(ns, th, t) ==
    LET d == th.at
        name == th.rest[1]
        o == Took(ns, th, d)
    IN IF ~CanR(ns, d) THEN Waits
       ELSE Goes(ns, IF name \notin DOMAIN ns[d].dirs THEN After(o, "nodir", 0)
                     ELSE IF Len(th.rest) = 1 THEN After(o, "dir", ns[d].dirs[name])
                     ELSE [o EXCEPT !.at = ns[d].dirs[name], !.rest = Tail(@)],
                 NoMutation, {Acc(d, "dirs", "r")})

\* file.stat, dir.Stat and file.open: the info or the opener under RLock
stepStat(ns, th, t) ==
    LET n == IF th.pc = "dirStat" THEN th.at ELSE th.file
    IN IF ~CanR(ns, n) THEN Waits
       ELSE Returns(ns, Took(ns, th, n), t, "", NoMutation, {})

\* the entries of a directory in the order of their names, files first
RECURSIVE Listed(_, _)
Listed(m, names) ==
    IF names = {} THEN <<>>
    ELSE LET n == CHOOSE x \in names : \A y \in names : Rank(x) <= Rank(y)
         IN <<m[n]>> \o Listed(m, names \ {n})

Children(ns, d) == Listed(ns[d].files, DOMAIN ns[d].files) \o Listed(ns[d].dirs, DOMAIN ns[d].dirs)

\* dir.ReadDir: down the path, then RLock held over the stat of every entry
stepReadDir(ns, th, t) ==
    LET d == th.at
    IN CASE th.pc = "ReadDir" /\ th.rest # <<>> ->
              IF ~CanR(ns, d) THEN Waits
              ELSE IF th.rest[1] \in DOMAIN ns[d].dirs
              THEN Goes(ns, [Took(ns, th, d) EXCEPT !.at = ns[d].dirs[th.rest[1]], !.rest = Tail(@)],
                        NoMutation, {Acc(d, "dirs", "r")})
              ELSE Returns(ns, Took(ns, th, d), t, "ErrNotExist", NoMutation, {Acc(d, "dirs", "r")})
         [] th.pc = "ReadDir" /\ th.rest = <<>> ->
              IF ~CanR(ns, d) THEN Waits
              ELSE IF Children(ns, d) = <<>>
              THEN Returns(ns, Took(ns, th, d), t, "", NoMutation,
                           {Acc(d, "files", "r"), Acc(d, "dirs", "r")})
              ELSE Goes(Hold(ns, t, d, "r"),
                        [Keeps(ns, th, d) EXCEPT !.pc = "rdStat", !.todo = Children(ns, d)],
                        NoMutation, {Acc(d, "files", "r"), Acc(d, "dirs", "r")})
         [] th.pc = "rdStat" ->
              IF ~CanR(ns, th.todo[1]) THEN Waits
              ELSE IF Len(th.todo) = 1
              THEN Returns(ns, Took(ns, th, th.todo[1]), t, "", NoMutation,
                           {Acc(d, "files", "r"), Acc(d, "dirs", "r")})
              ELSE Goes(ns, [Took(ns, th, th.todo[1]) EXCEPT !.todo = Tail(@)], NoMutation,
                        {Acc(d, "files", "r"), Acc(d, "dirs", "r")})

\* dir.WriteFile returned err to memFS.WriteFile or to memFS.OpenFile
wrote(ns, th, t, err, d, acc) ==
    IF th.op = "WriteFile" \/ err # "" THEN Returns(ns, th, t, err, d, acc)
    ELSE IF th.phase = 2
    THEN Goes(ReleaseAll(ns, t),
              [th EXCEPT !.pc = "fileOpen", !.held = <<>>, !.at = 0, !.rest = <<>>, !.sub = 0],
              d, acc)
    ELSE Goes(ReleaseAll(ns, t), Enter(th, "getFile", 4), d, acc)

\* file.overwrite that also empties the content when the payload is empty
overwriteInfoEmptying(ns, f, data) ==
    IF data = <<>> THEN [ns EXCEPT ![f].size = 0, ![f].content = <<>>]
    ELSE [ns EXCEPT ![f].size = Len(data)]

\* file.overwrite, f.Lock(); f.info.size = int64(len(data)); ...; f.Unlock():
\* the size is set, the content is left to the writes that follow
overwriteInfo(ns, f, data) == [ns EXCEPT ![f].size = Len(data)]

\* dir.WriteFile and file.overwrite
stepWriteFile(ns, th, t) ==
    LET d == th.at
        name == th.rest[1]
        f == th.file
        data == IF th.op = "OpenFile" THEN <<>> ELSE th.data
        id == Len(ns) + 1
    IN CASE th.pc = "WriteFile" /\ Len(th.rest) = 1 ->
              \* d.Lock(); defer d.Unlock(); existing, ok := d.files[parts[0]]
              IF ~CanW(ns, d) THEN Waits
              ELSE Goes(Hold(ns, t, d, "w"),
                        IF name \in DOMAIN ns[d].files
                        THEN [Keeps(ns, th, d) EXCEPT !.pc = "overwrite", !.sub = ns[d].files[name]]
                        ELSE [Keeps(ns, th, d) EXCEPT !.pc = "newFile"],
                        NoMutation, {Acc(d, "files", "r")})
         [] th.pc = "newFile" ->
              wrote(Append([ns EXCEPT ![d].files = (name :> id) @@ @], FileNode(ns[d].depth + 1, data)),
                    th, t, "", Mutated(ns, t, d, FALSE), {Acc(d, "files", "w")})
         [] th.pc = "overwrite" ->
              \* the opener is there (RLock), and f.open() (RLock)
              IF ~CanR(ns, th.sub) THEN Waits
              ELSE Goes(ns, [Took(ns, th, th.sub) EXCEPT !.pc = "overwriteInfo"], NoMutation, {})
         [] th.pc = "overwriteInfo" ->
              IF ~CanW(ns, th.sub) THEN Waits
              ELSE IF data = <<>>
              THEN wrote(overwriteInfo(ns, th.sub, data), Took(ns, th, th.sub), t, "",
                         Mutated(ns, t, th.sub, TRUE), {})
              ELSE Goes(overwriteInfo(ns, th.sub, data),
                        [Took(ns, th, th.sub) EXCEPT !.pc = "overwriteData"],
                        Mutated(ns, t, th.sub, TRUE), {})
         [] th.pc = "overwriteData" ->
              \* fileAccess.Write and lazyAccess.Write, each under Lock
              IF ~CanW(ns, th.sub) THEN Waits
              ELSE wrote([ns EXCEPT ![th.sub].content = data], Took(ns, th, th.sub), t, "",
                         Mutated(ns, t, th.sub, TRUE), {})
         [] th.pc = "WriteFile" /\ Len(th.rest) > 1 ->
              IF ~CanR(ns, d) THEN Waits
              ELSE IF name \in DOMAIN ns[d].dirs
              THEN Goes(ns, [Took(ns, th, d) EXCEPT !.pc = "WriteFileDown"], NoMutation,
                        {Acc(d, "dirs", "r")})
              ELSE wrote(ns, Took(ns, th, d), t, "ErrNotExist", NoMutation, {Acc(d, "dirs", "r")})
         [] th.pc = "WriteFileDown" ->
              \* d.RLock(); defer d.RUnlock(); d.dirs[parts[0]].WriteFile(...)
              IF ~CanR(ns, d) THEN Waits
              ELSE IF name \notin DOMAIN ns[d].dirs THEN Panics
              ELSE Goes(Hold(ns, t, d, "r"),
                        [Keeps(ns, th, d) EXCEPT !.pc = "WriteFile", !.at = ns[d].dirs[name],
                                                 !.rest = Tail(@)],
                        NoMutation, {Acc(d, "dirs", "r")})

\* dir.MkdirAll
stepMkdirAll(ns, th, t) ==
    LET d == th.at
        name == th.rest[1]
        id == Len(ns) + 1
    IN CASE th.pc = "MkdirAll" ->
              IF ~CanR(ns, d) THEN Waits
              ELSE IF name \in DOMAIN ns[d].files
              THEN Returns(ns, Took(ns, th, d), t, "ErrExist", NoMutation, {Acc(d, "files", "r")})
              ELSE Goes(ns, [Took(ns, th, d) EXCEPT !.pc = "MkdirAllLock"], NoMutation,
                        {Acc(d, "files", "r")})
         [] th.pc = "MkdirAllLock" ->
              \* d.Lock(); d.dirs[parts[0]] = &dir{...}; d.info.modified = ...; d.Unlock()
              IF ~CanW(ns, d) THEN Waits
              ELSE LET ns1 == IF name \in DOMAIN ns[d].dirs THEN ns
                              ELSE Append([ns EXCEPT ![d].dirs = (name :> id) @@ @],
                                          DirNode(ns[d].depth + 1, <<>>, <<>>))
                   IN IF Len(th.rest) = 1
                      THEN Returns(ns1, Took(ns, th, d), t, "", Mutated(ns, t, d, TRUE),
                                   {Acc(d, "dirs", "w")})
                      ELSE Goes(ns1, [Took(ns, th, d) EXCEPT !.pc = "MkdirAllDown"],
                                Mutated(ns, t, d, TRUE), {Acc(d, "dirs", "w")})
         [] th.pc = "MkdirAllDown" ->
              \* d.RLock(); defer d.RUnlock(); d.dirs[parts[0]].MkdirAll(...)
              IF ~CanR(ns, d) THEN Waits
              ELSE IF name \notin DOMAIN ns[d].dirs THEN Panics
              ELSE Goes(Hold(ns, t, d, "r"),
                        [Keeps(ns, th, d) EXCEPT !.pc = "MkdirAll", !.at = ns[d].dirs[name],
                                                 !.rest = Tail(@)],
                        NoMutation, {Acc(d, "dirs", "r")})

\* delete(m, name)
Without(m, name) == [x \in DOMAIN m \ {name} |-> m[x]]

\* the names of a map in the order they are removed in
RECURSIVE InOrder(_)
InOrder(names) ==
    IF names = {} THEN <<>>
    ELSE LET n == CHOOSE x \in names : \A y \in names : Rank(x) <= Rank(y)
         IN <<n>> \o InOrder(names \ {n})

\* dir.removePath on the last name of the path
stepRemovePath(ns, th, t) ==
    LET d == th.at
        name == th.rest[1]
        sub == th.sub
    IN CASE th.pc = "removePath" /\ Len(th.rest) > 1 ->
              \* sub, err := d.getDir(parts[0])
              IF ~CanR(ns, d) THEN Waits
              ELSE IF name \in DOMAIN ns[d].dirs
              THEN Goes(ns, [Took(ns, th, d) EXCEPT !.at = ns[d].dirs[name], !.rest = Tail(@)],
                        NoMutation, {Acc(d, "dirs", "r")})
              ELSE Returns(ns, Took(ns, th, d), t, "ErrNotExist", NoMutation, {Acc(d, "dirs", "r")})
         [] th.pc = "removePath" /\ Len(th.rest) = 1 ->
              \* d.RLock(); _, ok := d.files[name]; d.RUnlock()
              IF ~CanR(ns, d) THEN Waits
              ELSE Goes(ns, [Took(ns, th, d) EXCEPT
                               !.pc = IF name \in DOMAIN ns[d].files THEN "deleteFile" ELSE "removeDir"],
                        NoMutation, {Acc(d, "files", "r")})
         [] th.pc = "deleteFile" ->
              \* delete(d.files, name) starts, under no lock
              Goes(ns, [th EXCEPT !.pc = "deleteFileEnd"], NoMutation, {Acc(d, "files", "w")})
         [] th.pc = "deleteFileEnd" ->
              Returns([ns EXCEPT ![d].files = Without(@, name)], th, t, "",
                      Mutated(ns, t, d, FALSE), {Acc(d, "files", "w")})
         [] th.pc = "removeDir" ->
              \* sub, err := d.getDir(parts[0])
              IF ~CanR(ns, d) THEN Waits
              ELSE IF name \in DOMAIN ns[d].dirs
              THEN Goes(ns, [Took(ns, th, d) EXCEPT !.pc = "removeDirLock", !.sub = ns[d].dirs[name]],
                        NoMutation, {Acc(d, "dirs", "r")})
              ELSE Returns(ns, Took(ns, th, d), t, "ErrNotExist", NoMutation, {Acc(d, "dirs", "r")})
         [] th.pc = "removeDirLock" ->
              \* d.Lock(); defer d.Unlock()
              IF ~CanW(ns, d) THEN Waits
              ELSE Goes(Hold(ns, t, d, "w"), [Keeps(ns, th, d) EXCEPT !.pc = "removeDirLook"],
                        NoMutation, {})
         [] th.pc = "removeDirLook" ->
              \* len(sub.dirs) == 0 && len(sub.files) == 0, under no lock of sub
              IF DOMAIN ns[sub].dirs = {} /\ DOMAIN ns[sub].files = {}
              THEN Returns([ns EXCEPT ![d].dirs = Without(@, name)], th, t, "",
                           Mutated(ns, t, d, FALSE),
                           {Acc(sub, "dirs", "r"), Acc(sub, "files", "r"), Acc(d, "dirs", "w")})
              ELSE IF th.op = "RemoveAll"
              THEN Goes(ns, [th EXCEPT !.pc = "removeEach", !.todo = InOrder(DOMAIN ns[sub].dirs),
                                       !.inFiles = FALSE],
                        NoMutation, {Acc(sub, "dirs", "r"), Acc(sub, "files", "r")})
              ELSE Returns(ns, th, t, "ErrInvalid", NoMutation,
                           {Acc(sub, "dirs", "r"), Acc(sub, "files", "r")})
         [] th.pc = "removeEach" ->
              \* for _, s := range sub.dirs {...}; for _, f := range sub.files {...}
              IF th.todo # <<>>
              THEN Goes(ns, [th EXCEPT !.pc = "subRemovePath"], NoMutation, {})
              ELSE IF ~th.inFiles
              THEN Goes(ns, [th EXCEPT !.todo = InOrder(DOMAIN ns[sub].files), !.inFiles = TRUE],
                        NoMutation, {Acc(sub, "files", "r")})
              ELSE Returns([ns EXCEPT ![d].dirs = Without(@, name)], th, t, "",
                           Mutated(ns, t, d, FALSE), {Acc(d, "dirs", "w")})
         [] th.pc = "subRemovePath" ->
              \* sub.removePath(s.info.name, recursive): is it a file of sub?
              IF ~CanR(ns, sub) THEN Waits
              ELSE Goes(ns, [Took(ns, th, sub) EXCEPT
                               !.pc = IF th.todo[1] \in DOMAIN ns[sub].files
                                      THEN "subDeleteFile" ELSE "subRemoveDir"],
                        NoMutation, {Acc(sub, "files", "r")})
         [] th.pc = "subDeleteFile" ->
              Goes(ns, [th EXCEPT !.pc = "subDeleteFileEnd"], NoMutation, {Acc(sub, "files", "w")})
         [] th.pc = "subDeleteFileEnd" ->
              Goes([ns EXCEPT ![sub].files = Without(@, th.todo[1])],
                   [th EXCEPT !.pc = "removeEach", !.todo = Tail(@)],
                   Mutated(ns, t, sub, FALSE), {Acc(sub, "files", "w")})
         [] th.pc = "subRemoveDir" ->
              IF ~CanR(ns, sub) THEN Waits
              ELSE Goes(ns, IF th.todo[1] \in DOMAIN ns[sub].dirs
                            THEN [Took(ns, th, sub) EXCEPT !.pc = "subRemoveDirLock"]
                            ELSE [Took(ns, th, sub) EXCEPT !.pc = "removeEach", !.todo = Tail(@)],
                        NoMutation, {Acc(sub, "dirs", "r")})
         [] th.pc = "subRemoveDirLock" ->
              \* sub.Lock(); delete(sub.dirs, name); sub.Unlock(): the
              \* directories this deep are empty
              IF ~CanW(ns, sub) THEN Waits
              ELSE Goes([ns EXCEPT ![sub].dirs = Without(@, th.todo[1])],
                        [Took(ns, th, sub) EXCEPT !.pc = "removeEach", !.todo = Tail(@)],
                        Mutated(ns, t, sub, TRUE), {Acc(sub, "dirs", "w")})

GetFilePcs == {"getFile"}
GetDirPcs == {"getDir"}
StatPcs == {"fileStat", "dirStat", "fileOpen"}
ReadDirPcs == {"ReadDir", "rdStat"}
WriteFilePcs == {"WriteFile", "newFile", "overwrite", "overwriteInfo", "overwriteData", "WriteFileDown"}
MkdirAllPcs == {"MkdirAll", "MkdirAllLock", "MkdirAllDown"}
RemovePathPcs ==
    {"removePath", "deleteFile", "deleteFileEnd", "removeDir", "removeDirLock", "removeDirLook",
     "removeEach", "subRemovePath", "subDeleteFile", "subDeleteFileEnd", "subRemoveDir",
     "subRemoveDirLock"}

\* the next step of goroutine t
StepOf(ns, th, t) ==
    CASE th.pc \in GetFilePcs -> stepGetFile(ns, th, t)
      [] th.pc \in GetDirPcs -> stepGetDir(ns, th, t)
      [] th.pc \in StatPcs -> stepStat(ns, th, t)
      [] th.pc \in ReadDirPcs -> stepReadDir(ns, th, t)
      [] th.pc \in WriteFilePcs -> stepWriteFile(ns, th, t)
      [] th.pc \in MkdirAllPcs -> stepMkdirAll(ns, th, t)
      [] th.pc \in RemovePathPcs -> stepRemovePath(ns, th, t)
      [] OTHER -> Waits

\* the maps a goroutine is in the middle of reading or writing
Using(th) ==
    CASE th.pc = "deleteFileEnd" -> {Acc(th.at, "files", "w")}
      [] th.pc = "subDeleteFileEnd" -> {Acc(th.sub, "files", "w")}
      [] th.pc = "rdStat" -> {Acc(th.at, "files", "r"), Acc(th.at, "dirs", "r")}
      [] th.pc \in {"removeEach", "subRemovePath", "subDeleteFile", "subRemoveDir", "subRemoveDirLock"} ->
             {Acc(th.sub, IF th.inFiles THEN "files" ELSE "dirs", "r")}
      [] OTHER -> {}

\* goroutine t touches a map another goroutine is in the middle of using,
\* and one of the two writes it
Racing(t, acc) ==
    \E u \in Goroutines \ {t}, a \in acc :
        \E b \in Using(threads[u]) :
            a.node = b.node /\ a.map = b.map /\ "w" \in {a.mode, b.mode}

InCall(t) == threads[t].pc \notin {"idle", "done"}

\* goroutine t waits for a lock
Blocked(t) == InCall(t) /\ ~StepOf(nodes, threads[t], t).ok

ConcOnly == UNCHANGED <<vfsVars, pathVars, runnerVars>>

ConcInit ==
    /\ nodes = ConcTree
    /\ threads = [t \in Goroutines |-> Idle]
    /\ did = NoMutation
    /\ fault = "none"

\* the calls: every operation on every path of at most two names
ConcPaths == {<<"a">>, <<"b">>, <<"a", "a">>, <<"a", "b">>}
ConcPayloads == {<<>>, <<2>>}
ConcCall(op, path, data, create, trunc) ==
    [op |-> op, path |-> path, data |-> data, create |-> create, trunc |-> trunc]
ConcCalls ==
    {ConcCall(op, path, <<>>, FALSE, FALSE) :
        op \in {"Stat", "Open", "MkdirAll", "Remove", "RemoveAll"}, path \in ConcPaths}
    \cup {ConcCall("ReadDir", path, <<>>, FALSE, FALSE) : path \in {<<>>, <<"a">>}}
    \cup {ConcCall("WriteFile", path, data, FALSE, FALSE) : path \in ConcPaths, data \in ConcPayloads}
    \cup {ConcCall("OpenFile", path, <<>>, create, trunc) :
            path \in ConcPaths, create \in BOOLEAN, trunc \in BOOLEAN}

FirstPc(op) ==
    CASE op \in {"Stat", "Open", "OpenFile"} -> "getFile"
      [] op \in {"Remove", "RemoveAll"} -> "removePath"
      [] OTHER -> op

\* goroutine t calls the filesystem
Begin(t, call) ==
    /\ fault = "none"
    /\ ~InCall(t)
    /\ threads[t].calls < MaxCalls
    /\ threads' = [threads EXCEPT ![t] =
           Enter([Idle EXCEPT !.op = call.op, !.path = call.path, !.data = call.data,
                              !.create = call.create, !.trunc = call.trunc,
                              !.ordered = threads[t].ordered, !.calls = threads[t].calls + 1],
                 FirstPc(call.op), 1)]
    /\ did' = NoMutation
    /\ UNCHANGED <<nodes, fault>>
    /\ ConcOnly

\* Goroutine t takes its next step.  A nil *dir is a panic that nothing
\* recovers; a data race on a map ends in the fatal error of the runtime
\* ("concurrent map read and map write") or goes unnoticed.
Takes(t, pcs) ==
    LET r == StepOf(nodes, threads[t], t)
    IN /\ fault = "none"
       /\ threads[t].pc \in pcs
       /\ r.ok
       /\ IF r.nil
          THEN /\ fault' = "nil dereference"
               /\ did' = NoMutation
               /\ UNCHANGED <<nodes, threads>>
          ELSE /\ nodes' = r.ns
               /\ threads' = [threads EXCEPT ![t] = r.th]
               /\ did' = r.did
               /\ fault' \in IF Racing(t, r.acc) THEN {"none", "concurrent map access"}
                             ELSE {"none"}
       /\ ConcOnly

getFileStep(t) == Takes(t, GetFilePcs)
getDirStep(t) == Takes(t, GetDirPcs)
StatStep(t) == Takes(t, StatPcs)
ReadDirStep(t) == Takes(t, ReadDirPcs)
WriteFileStep(t) == Takes(t, WriteFilePcs)
MkdirAllStep(t) == Takes(t, MkdirAllPcs)
removePathStep(t) == Takes(t, RemovePathPcs)

\* a call on the filesystem leaves the Runners and the host alone
VfsOnly == UNCHANGED <<pathVars, runnerVars, concVars>>

VfsInit ==
    /\ dirs = <<>>
    /\ files = <<>>
    /\ heap = <<>>
    /\ arrs = <<>>
    /\ open = <<>>
    /\ log = <<>>
    /\ opened = {}
    /\ ret = Call("NewMemFS", <<>>, <<>>, Nil, <<>>)
    /\ ConcInit

MkdirAll(path, perm) ==
    LET r == dirMkdirAll(VFS, <<>>, path, perm)
    IN /\ Becomes(r.t, open)
       /\ ret' = Call("MkdirAll", path, <<>>, r.err, <<>>)
       /\ UNCHANGED log
       /\ VfsOnly

WriteFile(path, data, perm) ==
    LET r == dirWriteFile(VFS, <<>>, path, data, perm)
    IN /\ Becomes(r.t, open)
       /\ ret' = Call("WriteFile", path, data, r.err, <<>>)
       /\ log' = IF r.err = Nil THEN Disturb(log, open, Target(VFS, path), 0) ELSE log
       /\ VfsOnly

OpenFileCall(path, create, trunc, perm) ==
    LET r == OpenFile(VFS, path, create, trunc, perm)
        s == FreshId(DOMAIN open)
        lg == IF trunc THEN Disturb(log, open, Target(VFS, path), 0) ELSE log
    IN /\ Cardinality(DOMAIN open) < MaxSessions
       /\ IF r.err = Nil
          THEN /\ Becomes(r.t, open @@ (s :> [file |-> r.file, reader |-> NoAccess]))
               /\ log' = lg @@ (s :> [path |-> path, fresh |-> create /\ trunc,
                                       written |-> <<>>, calls |-> 0, alone |-> TRUE])
          ELSE /\ Becomes(r.t, open)
               /\ log' = lg
       /\ ret' = Call("OpenFile", path, <<>>, r.err, <<>>)
       /\ VfsOnly

Write(s, data) ==
    LET r == fileAccessWrite(VFS, open[s], data)
    IN /\ log[s].calls < MaxWrites
       /\ Becomes(r.t, [open EXCEPT ![s] = r.fa])
       /\ log' = IF r.err = Nil
                 THEN [Disturb(log, open, open[s].file, s) EXCEPT
                          ![s].written = @ \o data, ![s].calls = @ + 1]
                 ELSE [log EXCEPT ![s].calls = @ + 1]
       /\ ret' = Call("Write", log[s].path, data, r.err, <<>>)
       /\ VfsOnly

\* a Read on a session on a file of a snapshot
Read(s) ==
    LET r == fileAccessRead(VFS, open[s])
    IN /\ heap[open[s].file].opener = "base"
       /\ Becomes(r.t, [open EXCEPT ![s] = r.fa])
       /\ ret' = Call("Read", log[s].path, <<>>, Nil, r.out)
       /\ UNCHANGED log
       /\ VfsOnly

\* memFS.ReadFile: a session of its own, read to the end and closed
ReadFileCall(path) ==
    LET r == ReadFile(VFS, path)
        f == getFile(VFS, <<>>, path)
        t == IF f.ok /\ heap[f.file].opener = "base"
             THEN baseOpen(VFS, heap[f.file].src, "Read")
             ELSE VFS
    IN /\ Becomes(t, open)
       /\ ret' = Call("ReadFile", path, <<>>, r.err, r.out)
       /\ UNCHANGED log
       /\ VfsOnly

Close(s) ==
    /\ Becomes(VFS, Restrict(open, DOMAIN open \ {s}))
    /\ log' = Restrict(log, DOMAIN log \ {s})
    /\ ret' = Call("Close", log[s].path, <<>>, Nil, <<>>)
    /\ VfsOnly

Remove(path) ==
    LET r == dirRemove(VFS, path)
    IN /\ Becomes(r.t, open)
       /\ ret' = Call("Remove", path, <<>>, r.err, <<>>)
       /\ UNCHANGED log
       /\ VfsOnly

RemoveAll(path) ==
    LET r == dirRemoveAll(VFS, path)
    IN /\ Becomes(r.t, open)
       /\ ret' = Call("RemoveAll", path, <<>>, r.err, <<>>)
       /\ UNCHANGED log
       /\ VfsOnly

ReadDirCall(path) ==
    LET d == getDir(VFS, <<>>, path)
        at == IF d.ok THEN d.dir ELSE <<>>
    IN \E fo \in Orders(ChildFiles(VFS, at)), do \in Orders(ChildDirs(VFS, at)) :
          LET r == dirReadDir(VFS, <<>>, path, fo, do)
          IN /\ ret' = Call("ReadDir", path, <<>>, r.err, r.out)
             /\ UNCHANGED <<dirs, files, heap, arrs, open, log, opened>>
             /\ VfsOnly

----------------------------------------------------------------------------
(* The builtins.  A builtin leaves in ret what it wrote to Stdout and to   *)
(* Stderr, the errors the filesystem returned to it, and what it returned. *)

\* the streams of a RunnerContext before the builtin wrote to them
NoOutput == [stdout |-> <<>>, stderr |-> <<>>, met |-> <<>>]

\* the filesystem or a stream answered the builtin with err
Met(o, err) == [o EXCEPT !.met = Append(@, err)]

\* a builtin that keeps its complaint to itself
FprintfNowhere(o, cmd, arg, err) == o

\* fmt.Fprintf(hc.Stderr, "cmd: %s: %v\n", arg, err)
Fprintf(o, cmd, arg, err) ==
    [o EXCEPT !.stderr = Append(@, [cmd |-> cmd, arg |-> arg, err |-> err])]

\* dir.Open: the root, a file, a directory, or nothing
dirOpen(t, name) ==
    LET f == getFile(t, <<>>, name)
        d == getDir(t, <<>>, name)
    IN IF name = <<>> THEN [err |-> Nil, info |-> DirInfo(t, <<>>), file |-> 0]
       ELSE IF f.ok
       THEN IF t.heap[f.file].opener = "nil"
            THEN [err |-> Bare("missing opener"), info |-> DirInfo(t, <<>>), file |-> 0]
            ELSE [err |-> Nil, info |-> FileInfo(t, f.file), file |-> f.file]
       ELSE IF d.ok THEN [err |-> Nil, info |-> DirInfo(t, d.dir), file |-> 0]
       ELSE [err |-> PathError("open", name, "ErrNotExist"), info |-> DirInfo(t, <<>>), file |-> 0]

\* the loop of Cat over its arguments; writes tells whether Stdout takes
\* what is written to it
RECURSIVE catFiles(_, _, _, _)
catFiles(t, args, o, writes) ==
    IF args = <<>> THEN [t |-> t, o |-> o, err |-> Nil]
    ELSE LET arg == Head(args)
             f == dirOpen(t, arg)
             data == ReadFile(t, arg)
             copied == IF data.err # Nil THEN data.err
                       ELSE IF writes THEN Nil ELSE Bare("write error")
             t2 == IF f.file # 0 /\ t.heap[f.file].opener = "base"
                   THEN baseOpen(t, t.heap[f.file].src, "Read")
                   ELSE t
         IN IF f.err # Nil
            THEN [t |-> t, o |-> Fprintf(Met(o, f.err), "cat", arg, f.err), err |-> Nil]
            ELSE IF f.info.mode.dir
            THEN [t |-> t,
                  o |-> Fprintf(Met(o, Bare("is a directory")), "cat", arg, Bare("is a directory")),
                  err |-> Nil]
            ELSE IF copied # Nil
            THEN [t |-> t2, o |-> Fprintf(Met(o, copied), "cat file", arg, copied), err |-> Nil]
            ELSE catFiles(t2, Tail(args), [o EXCEPT !.stdout = @ \o data.out], writes)

\* the loop of Rm over its arguments
RECURSIVE rmFiles(_, _, _)
rmFiles(t, args, o) ==
    IF args = <<>> THEN [t |-> t, o |-> o, err |-> Nil]
    ELSE IF Head(args) = <<"-r">> THEN rmFiles(t, Tail(args), o)
    ELSE LET r == dirRemoveAll(t, Head(args))
         IN IF r.err # Nil
            THEN [t |-> r.t, o |-> Fprintf(Met(o, r.err), "rm", Head(args), r.err), err |-> Nil]
            ELSE rmFiles(r.t, Tail(args), o)

\* the loop of mkdir over its arguments
RECURSIVE mkdirAll(_, _, _)
mkdirAll(t, args, o) ==
    IF args = <<>> THEN [t |-> t, o |-> o, err |-> Nil]
    ELSE LET r == dirMkdirAll(t, <<>>, Head(args), Mode(493, FALSE))
         IN IF r.err # Nil
            THEN [t |-> r.t, o |-> Fprintf(Met(o, r.err), "mkdir", Head(args), r.err), err |-> Nil]
            ELSE mkdirAll(r.t, Tail(args), o)

\* Cat with arguments
Cat(args, writes) ==
    LET r == catFiles(VFS, args, NoOutput, writes)
    IN /\ args # <<>>
       /\ Becomes(r.t, open)
       /\ ret' = Call("cat", args, <<>>, r.err, r.o)
       /\ UNCHANGED log
       /\ VfsOnly

\* Cat without arguments: io.Copy(hc.Stdout, hc.Stdin), unless one of them
\* is nil; reads tells whether Stdin can be read to its end
CatStdin(stdin, stdout, reads) ==
    LET err == IF stdin = "nil" \/ stdout = "nil" \/ reads THEN Nil ELSE Bare("read error")
    IN /\ ret' = Call("cat", <<>>, <<>>, err, IF err = Nil THEN NoOutput ELSE Met(NoOutput, err))
       /\ UNCHANGED <<dirs, files, heap, arrs, open, log, opened>>
       /\ VfsOnly

Rm(args) ==
    LET r == rmFiles(VFS, args, NoOutput)
    IN /\ Becomes(r.t, open)
       /\ ret' = Call("rm", args, <<>>, r.err, r.o)
       /\ UNCHANGED log
       /\ VfsOnly

\* Ls: fs.ReadDir of its first argument, of "." without one
Ls(args) ==
    LET name == IF args = <<>> THEN <<>> ELSE args[1]
        d == getDir(VFS, <<>>, name)
        at == IF d.ok THEN d.dir ELSE <<>>
    IN \E fo \in Orders(ChildFiles(VFS, at)), do \in Orders(ChildDirs(VFS, at)) :
          LET r == dirReadDir(VFS, <<>>, name, fo, do)
              o == IF r.err # Nil THEN Fprintf(Met(NoOutput, r.err), "ls", name, r.err)
                   ELSE [NoOutput EXCEPT !.stdout = [i \in DOMAIN r.out |-> r.out[i].name]]
          IN /\ ret' = Call("ls", args, <<>>, Nil, o)
             /\ UNCHANGED <<dirs, files, heap, arrs, open, log, opened>>
             /\ VfsOnly

Mkdir(args) ==
    LET r == mkdirAll(VFS, args, NoOutput)
    IN /\ Becomes(r.t, open)
       /\ ret' = Call("mkdir", args, <<>>, r.err, r.o)
       /\ UNCHANGED log
       /\ VfsOnly

\* sleep: a duration it cannot parse is a bad argument
Sleep(parses) ==
    LET o == IF parses THEN NoOutput
             ELSE Fprintf(Met(NoOutput, Bare("invalid duration")), "sleep", <<>>,
                          Bare("invalid duration"))
    IN /\ ret' = Call("sleep", <<>>, <<>>, Nil, o)
       /\ UNCHANGED <<dirs, files, heap, arrs, open, log, opened>>
       /\ VfsOnly

----------------------------------------------------------------------------
(* PATH lookup (handler.go).  A string that holds a list of directories is *)
(* a sequence of tokens, a directory or the colon between two of them; a   *)
(* path is whether it is absolute and its elements.                        *)

Colon == ":"
PathAtoms == {".", "/a", "/b"}
Cmds == {"x"}
WorkDirs == {<<>>, <<"a">>}

PathStrings ==
    {s \in UNION {[1..n -> PathAtoms \cup {Colon}] : n \in 0..MaxPathTokens} :
        \A i \in 1..(Len(s) - 1) : s[i] = Colon \/ s[i + 1] = Colon}

\* strings.Split(s, ":")
RECURSIVE stringsSplit(_)
stringsSplit(s) ==
    IF s = <<>> THEN <<"">>
    ELSE LET rest == stringsSplit(Tail(s))
         IN IF Head(s) = Colon THEN <<"">> \o rest ELSE <<Head(s)>> \o Tail(rest)

P(abs, segs) == [abs |-> abs, segs |-> segs]
EmptyPath == P(FALSE, <<>>)

\* the path a directory of the list or a command name spells
Parse(str) ==
    CASE str = "" -> EmptyPath
      [] str = "." -> P(FALSE, <<".">>)
      [] str = "/a" -> P(TRUE, <<"a">>)
      [] str = "/b" -> P(TRUE, <<"b">>)
      [] OTHER -> P(FALSE, <<str>>)

\* path.Clean, element by element
RECURSIVE cleanSegs(_, _, _)
cleanSegs(segs, outp, abs) ==
    IF segs = <<>> THEN outp
    ELSE LET e == Head(segs)
             nxt == IF e = "" \/ e = "." THEN outp
                    ELSE IF e = ".."
                         THEN IF outp # <<>> /\ outp[Len(outp)] # ".."
                              THEN SubSeq(outp, 1, Len(outp) - 1)
                              ELSE IF abs THEN outp ELSE Append(outp, "..")
                         ELSE Append(outp, e)
         IN cleanSegs(Tail(segs), nxt, abs)

Clean(p) ==
    LET c == cleanSegs(p.segs, <<>>, p.abs)
    IN IF c = <<>> /\ ~p.abs THEN P(FALSE, <<".">>) ELSE P(p.abs, c)

IsAbs(p) == p.abs

\* path.Join(a, b): empty elements are dropped, the rest joined and cleaned
Join(a, b) ==
    IF a = EmptyPath /\ b = EmptyPath THEN EmptyPath
    ELSE IF a = EmptyPath THEN Clean(b)
    ELSE Clean(P(a.abs, a.segs \o b.segs))

\* what the host holds at a path
Absent == [kind |-> "none", perm |-> 0]
HostNodes == {Absent,
              [kind |-> "dir", perm |-> 493],
              [kind |-> "file", perm |-> 420],
              [kind |-> "file", perm |-> 493],
              [kind |-> "pipe", perm |-> 493]}
HostPaths == {<<"x">>, <<"a", "x">>, <<"b", "x">>}

\* os.Stat on the host
osStat(h, p) ==
    IF p.abs /\ p.segs \in DOMAIN h /\ h[p.segs] # Absent
    THEN [ok |-> TRUE, mode |-> h[p.segs]]
    ELSE [ok |-> FALSE, mode |-> Absent]

\* m & 0o111 # 0
HasExec(perm) ==
    \/ perm % 2 = 1
    \/ (perm \div 8) % 2 = 1
    \/ (perm \div 64) % 2 = 1

\* an error of the lookup, and no error
LookErr(msg, file) == [msg |-> msg, file |-> file]
Ok == LookErr("nil", "")

Found(p) == [path |-> p, err |-> Ok]
Failed(msg, file) == [path |-> EmptyPath, err |-> LookErr(msg, file)]

checkStat(h, dir, file) ==
    LET f == IF IsAbs(file) THEN file ELSE Join(dir, file)
        info == osStat(h, f)
    IN IF ~info.ok THEN Failed("stat: no such file or directory", "")
       ELSE IF info.mode.kind = "dir" THEN Failed("is a directory", "")
       ELSE IF ~HasExec(info.mode.perm) THEN Failed("permission denied", "")
       ELSE Found(f)

\* a lookup that gives up at the first candidate it may not execute
RECURSIVE lookLoopFailFast(_, _, _, _)
lookLoopFailFast(h, dir, pathList, file) ==
    IF pathList = <<>>
    THEN Failed("executable file not found in $PATH", file)
    ELSE LET elem == Head(pathList)
             path == IF elem = "" \/ elem = "."
                     THEN P(FALSE, <<".">> \o Parse(file).segs)
                     ELSE Join(Parse(elem), Parse(file))
             r == checkStat(h, dir, path)
         IN IF r.err = Ok \/ r.err.msg = "permission denied" THEN r
            ELSE lookLoopFailFast(h, dir, Tail(pathList), file)

\* the loop of lookPathDir over the directories that are left
RECURSIVE lookLoop(_, _, _, _)
lookLoop(h, dir, pathList, file) ==
    IF pathList = <<>>
    THEN Failed("executable file not found in $PATH", file)
    ELSE LET elem == Head(pathList)
             path == IF elem = "" \/ elem = "."
                     THEN P(FALSE, <<".">> \o Parse(file).segs)
                     ELSE Join(Parse(elem), Parse(file))
             r == checkStat(h, dir, path)
         IN IF r.err = Ok THEN r ELSE lookLoop(h, dir, Tail(pathList), file)

lookPathDir(h, dir, pathStr, file) ==
    LET split == stringsSplit(pathStr)
        pathList == IF Len(split) = 0 THEN <<"">> ELSE split
    IN lookLoop(h, dir, pathList, file)

NoLookup == [file |-> "", path |-> EmptyPath, err |-> LookErr("no lookup", "")]

\* a step of the lookup leaves the filesystem and the Runners alone
PathOnly == UNCHANGED <<vfsVars, runnerVars, concVars>>

PathInit ==
    /\ PATH = <<>>
    /\ cwd = <<>>
    /\ host = [p \in HostPaths |-> Absent]
    /\ last = NoLookup
    /\ first = [c \in Cmds |-> NoLookup]

LookPath(file) ==
    LET r == lookPathDir(host, P(TRUE, cwd), PATH, file)
        l == [file |-> file, path |-> r.path, err |-> r.err]
    IN /\ last' = l
       /\ first' = IF first[file] = NoLookup THEN [first EXCEPT ![file] = l] ELSE first
       /\ UNCHANGED <<PATH, cwd, host>>
       /\ PathOnly

\* the script assigns PATH
SetPATH(v) ==
    /\ PATH' = v
    /\ last' = NoLookup
    /\ first' = [c \in Cmds |-> NoLookup]
    /\ UNCHANGED <<cwd, host>>
    /\ PathOnly

\* the script changes directory
Chdir(d) ==
    /\ cwd' = d
    /\ last' = NoLookup
    /\ first' = [c \in Cmds |-> NoLookup]
    /\ UNCHANGED <<PATH, host>>
    /\ PathOnly

\* another process of the host makes, changes or removes a file
HostChange(p, node) ==
    /\ host' = [host EXCEPT ![p] = node]
    /\ last' = NoLookup
    /\ UNCHANGED <<PATH, cwd, first>>
    /\ PathOnly

----------------------------------------------------------------------------
(* The Runner.  A string is a literal text, or the text the scripts on the *)
(* Runner w write into variables after w has made k subshells (the scripts *)
(* of different Runners, and of a Runner before and after a Subshell call, *)
(* write different texts).                                                 *)

Lit(text) == [lit |-> text, w |-> 0, k |-> 0]
Token(w, k) == [lit |-> "", w |-> w, k |-> k]

\* expand.Variable
Var(str, readOnly) == [Set |-> TRUE, Str |-> str, ReadOnly |-> readOnly]
UnsetVar == [Set |-> FALSE, Str |-> Lit(""), ReadOnly |-> FALSE]

UserVars == {"x", "y"}
SeedVars == {"HOME", "UID", "EUID", "GID", "PWD", "IFS", "OPTIND"}
VarNames == UserVars \cup SeedVars

\* where an overlay looks a name up when it does not hold it
NoParent == [kind |-> "nil", env |-> <<>>, of |-> 0]
EnvParent(env) == [kind |-> "env", env |-> env, of |-> 0]
OverlayParent(rid) == [kind |-> "overlay", env |-> <<>>, of |-> rid]

Overlay(parent, values) == [parent |-> parent, values |-> values]
NilOverlay == Overlay(NoParent, <<>>)

\* overlayEnviron.Get: the local layer, then the parent
RECURSIVE ovGet(_, _, _)
ovGet(rs, ov, name) ==
    IF name \in DOMAIN ov.values THEN ov.values[name]
    ELSE CASE ov.parent.kind = "nil" -> UnsetVar
           [] ov.parent.kind = "env" ->
                IF name \in DOMAIN ov.parent.env THEN ov.parent.env[name] ELSE UnsetVar
           [] ov.parent.kind = "overlay" -> ovGet(rs, rs[ov.parent.of].writeEnv, name)

\* overlayEnviron.Each: the merged view, local over parent
RECURSIVE ovEach(_, _)
ovEach(rs, ov) ==
    ov.values @@
    (CASE ov.parent.kind = "nil" -> <<>>
       [] ov.parent.kind = "env" -> ov.parent.env
       [] ov.parent.kind = "overlay" -> ovEach(rs, rs[ov.parent.of].writeEnv))

\* overlayEnviron.Set: the local layer only
ovSet(ov, name, vr) == [ov EXCEPT !.values = (name :> vr) @@ @]

\* a background layer holds the snapshot of what the parent shows, a
\* foreground layer looks the parent up
newOverlayEnviron(rs, rid, background) ==
    IF background
    THEN Overlay(NoParent, ovEach(rs, rs[rid].writeEnv))
    ELSE Overlay(OverlayParent(rid), <<>>)

NoErr == "nil"
NoEnv == <<>>

\* shellOptsTable: the flag and the name of every option (" " for none)
shellOptsTable ==
    << [flag |-> "a", name |-> "allexport"], [flag |-> "e", name |-> "errexit"],
       [flag |-> "n", name |-> "noexec"], [flag |-> "f", name |-> "noglob"],
       [flag |-> "u", name |-> "nounset"], [flag |-> "x", name |-> "xtrace"],
       [flag |-> " ", name |-> "pipefail"] >>

\* An argument of the shell is the sequence of its characters; a word that
\* holds no - and no + is kept in one piece.
Word(w) == <<w>>

\* the zero value of runnerOpts
NoOpts == [i \in DOMAIN shellOptsTable |-> FALSE]

\* Params, opts, stdin, stdout and stderr: with Dir, what the constructor
\* sets up and Reset restores
Settings(params, opts, stdin, stdout, stderr) ==
    [Params |-> params, opts |-> opts, stdin |-> stdin, stdout |-> stdout, stderr |-> stderr]

\* the zero value of the five
NoSettings == Settings(<<>>, NoOpts, "nil", "nil", "nil")

\* the interpreter state a script builds up: functions, aliases, the trap
\* callbacks and the background jobs
Accumulated(funcs, alias, callbackErr, callbackExit, bgProcs) ==
    [Funcs |-> funcs, alias |-> alias, callbackErr |-> callbackErr,
     callbackExit |-> callbackExit, bgProcs |-> bgProcs]

NoAccumulated == Accumulated(<<>>, <<>>, "", "", <<>>)

\* what the host injects: the filesystem, the command table, the TTY flag
Injected(fileSystem, commands, tty) ==
    [FileSystem |-> fileSystem, Commands |-> commands, TTY |-> tty]

\* Which map holds the functions of a Runner, which one its aliases and which
\* array its directory stack, each named by the Runner it was made for.
\* These are the ones made for the Runner c.
Own(c) == [Funcs |-> c, alias |-> c, dirStack |-> c]

\* the Runner NewRunner returns, given the environment of WithEnv.  now
\* holds Params, opts and the streams, orig holds origParams, origOpts and
\* the orig streams.
NewRunner(env) ==
    [Env |-> env, Dir |-> "/", origDir |-> "", dirStack |-> <<>>,
     writeEnv |-> NilOverlay, Vars |-> <<>>,
     fatalErr |-> NoErr, nonFatalHandlerErr |-> NoErr,
     exit |-> 0, exiting |-> FALSE, didReset |-> FALSE,
     now |-> NoSettings,
     orig |-> NoSettings,
     acc |-> NoAccumulated,
     inj |-> Injected("NewMemFS", "Commands", TRUE),
     refs |-> Own(1)]

\* a Reset that seeds a default over what the base supplies
seedAlways(rs, ov, name, vr) == ovSet(ov, name, vr)

\* the defaults Reset seeds the overlay with
seedIfUnset(rs, ov, name, vr) ==
    IF ovGet(rs, ov, name).Set THEN ov ELSE ovSet(ov, name, vr)

seeded(rs, ov, dir) ==
    LET o1 == seedIfUnset(rs, ov, "HOME", Var(Lit("/"), FALSE))
        o2 == seedIfUnset(rs, o1, "UID", Var(Lit("0"), TRUE))
        o3 == seedIfUnset(rs, o2, "EUID", Var(Lit("0"), TRUE))
        o4 == seedIfUnset(rs, o3, "GID", Var(Lit("0"), TRUE))
        o5 == ovSet(o4, "PWD", Var(Lit(dir), FALSE))
        o6 == ovSet(o5, "IFS", Var(Lit(" \t\n"), FALSE))
    IN ovSet(o6, "OPTIND", Var(Lit("1"), FALSE))

\* Runner.optByFlag and Runner.optByName: the index of the option, 0 for nil
optByFlag(flag) ==
    LET hit == {i \in DOMAIN shellOptsTable : shellOptsTable[i].flag = flag}
    IN IF hit = {} THEN 0 ELSE MinOf(hit)

optByName(name) ==
    LET hit == {i \in DOMAIN shellOptsTable : Word(shellOptsTable[i].name) = name}
    IN IF hit = {} THEN 0 ELSE MinOf(hit)

\* flagParser{remaining: args}: the arguments left, and whether the slice
\* is nil.  No argument of the model holds two flags ("-ab"), so the field
\* current stays empty.
flagParser(args) == [remaining |-> args, nil |-> args = <<>>]

\* flagParser.more: at the end the slice becomes nil; "--" is taken off and
\* ends the flags; an argument that starts with neither - nor + ends them
more(fp) ==
    IF fp.remaining = <<>>
    THEN [more |-> FALSE, fp |-> [remaining |-> <<>>, nil |-> TRUE]]
    ELSE LET arg == fp.remaining[1]
         IN IF arg = <<"-", "-">>
            THEN [more |-> FALSE, fp |-> [remaining |-> Tail(fp.remaining), nil |-> FALSE]]
            ELSE IF Len(arg) = 0 \/ arg[1] \notin {"-", "+"}
            THEN [more |-> FALSE, fp |-> fp]
            ELSE [more |-> TRUE, fp |-> fp]

\* flagParser.flag and flagParser.value take the next argument off
flag(fp) == [flag |-> fp.remaining[1], fp |-> [fp EXCEPT !.remaining = Tail(@)]]

value(fp) ==
    IF fp.remaining = <<>> THEN [value |-> <<>>, fp |-> fp]
    ELSE [value |-> fp.remaining[1], fp |-> [fp EXCEPT !.remaining = Tail(@)]]

\* a WithParams that, after a "-", takes the arguments when the slice is
\* not nil
paramsAfterDashIfNotNil(r, fp) == IF ~fp.nil THEN [r EXCEPT !.now.Params = fp.remaining] ELSE r

\* WithParams after a "-": if args := fp.args(); len(args) > 0
paramsAfterDash(r, fp) == IF Len(fp.remaining) > 0 THEN [r EXCEPT !.now.Params = fp.remaining] ELSE r

\* WithParams after the flags: if args := fp.args(); args != nil
paramsAtEnd(r, fp) == IF ~fp.nil THEN [r EXCEPT !.now.Params = fp.remaining] ELSE r

\* the function WithParams returns, applied to the Runner r: the loop over
\* the flags and what follows it
RECURSIVE withParams(_, _)
withParams(r, fp0) ==
    LET m == more(fp0)
        f == flag(m.fp)
        enable == f.flag[1] = "-"
        v == value(f.fp)
        i == IF f.flag[2] # "o" THEN optByFlag(f.flag[2]) ELSE optByName(v.value)
    IN IF ~m.more THEN [r |-> paramsAtEnd(r, m.fp), err |-> NoErr]
       ELSE IF f.flag = <<"-">> THEN [r |-> paramsAfterDash(r, f.fp), err |-> NoErr]
       ELSE IF f.flag[2] = "o" /\ v.value = <<>> THEN withParams(r, v.fp)
       ELSE IF i = 0 THEN [r |-> r, err |-> "invalid option"]
       ELSE withParams([r EXCEPT !.now.opts[i] = enable],
                       IF f.flag[2] # "o" THEN f.fp ELSE v.fp)

\* a Reset that captures the baseline anew every time
resetRecapturing(rs, r) ==
    [Env |-> r.Env, Dir |-> r.Dir, origDir |-> r.Dir,
     dirStack |-> <<r.Dir>>,
     writeEnv |-> seeded(rs, Overlay(EnvParent(r.Env), <<>>), r.Dir),
     Vars |-> <<>>,
     fatalErr |-> NoErr, nonFatalHandlerErr |-> NoErr,
     exit |-> 0, exiting |-> FALSE, didReset |-> TRUE,
     now |-> r.now, orig |-> r.now, acc |-> NoAccumulated, inj |-> r.inj,
        refs |-> r.refs]

\* a Reset that leaves the job list as it was
resetKeepingJobs(rs, r) ==
    LET origDir == IF r.didReset THEN r.origDir ELSE r.Dir
        orig == IF r.didReset THEN r.orig ELSE r.now
    IN [Env |-> r.Env, Dir |-> origDir, origDir |-> origDir, dirStack |-> <<origDir>>,
        writeEnv |-> seeded(rs, Overlay(EnvParent(r.Env), <<>>), origDir), Vars |-> <<>>,
        fatalErr |-> NoErr, nonFatalHandlerErr |-> NoErr, exit |-> 0, exiting |-> FALSE,
        didReset |-> TRUE, now |-> orig, orig |-> orig,
        acc |-> [NoAccumulated EXCEPT !.bgProcs = r.acc.bgProcs], inj |-> r.inj,
        refs |-> r.refs]

\* Runner.Reset, on the Runner r
reset(rs, r) ==
    LET origDir == IF r.didReset THEN r.origDir ELSE r.Dir
        orig == IF r.didReset THEN r.orig ELSE r.now
    IN [Env |-> r.Env, Dir |-> origDir, origDir |-> origDir,
        dirStack |-> <<origDir>>,
        writeEnv |-> seeded(rs, Overlay(EnvParent(r.Env), <<>>), origDir),
        Vars |-> <<>>,
        fatalErr |-> NoErr, nonFatalHandlerErr |-> NoErr,
        exit |-> 0, exiting |-> FALSE, didReset |-> TRUE,
        now |-> orig, orig |-> orig, acc |-> NoAccumulated, inj |-> r.inj,
        refs |-> r.refs]

ensureReset(rs, r) == IF r.didReset THEN r ELSE reset(rs, r)

\* ExitStatus(n): the conversion of an int to uint8
ExitStatus(n) == n % 256

NodeKinds == {"File", "Stmt", "Command", "Other"}

\* What the statement executor did during one Run: the variable it wrote
\* ("" for none), the fatal error and the handler error it raised ("nil"
\* for none), the status of the last statement, whether the script exited.
Effect(name, fatal, handler, exit, exiting) ==
    [name |-> name, fatal |-> fatal, handler |-> handler, exit |-> exit, exiting |-> exiting,
     does |-> "nothing"]

\* What else a script may do to the interpreter: change directory, set the
\* positional parameters or an option, redirect the streams of the shell,
\* define a function or an alias, set a trap, start a background job.
Deeds == {"cd", "set", "seto", "exec", "func", "alias", "trap", "bg"}

\* What a script may do to the functions, the aliases and the directory
\* stack: define a function anew, remove it, remove an alias, pushd, popd.
TableDeeds == {"func", "refunc", "unfunc", "alias", "unalias", "pushd", "popd"}

\* the map m without the key k
Deleted(m, k) == [n \in DOMAIN m \ {k} |-> m[n]]

Doing(eff, deed) == [eff EXCEPT !.does = deed]

\* bgProc{done: make(chan struct{}), exit: new(int)} and the goroutine that
\* runs the job: done counts the times the channel was closed, exit.set tells
\* whether the goroutine has stored the status
bgProc(owner) ==
    [done |-> 0, exit |-> [val |-> 0, set |-> FALSE], pc |-> "run", owner |-> owner]

\* a goroutine that closes done before it stores the status
jobStepSignalFirst(p, code) ==
    CASE p.pc = "run" -> [p EXCEPT !.done = @ + 1, !.pc = "set"]
      [] p.pc = "set" -> [p EXCEPT !.exit = [val |-> code, set |-> TRUE], !.pc = "end"]
      [] OTHER -> p

\* the next step of the goroutine of a job: the subshell ends with the status
\* code, which goes to *bg.exit; then close(bg.done)
jobStep(p, code) ==
    CASE p.pc = "run" -> [p EXCEPT !.exit = [val |-> code, set |-> TRUE], !.pc = "set"]
      [] p.pc = "set" -> [p EXCEPT !.done = @ + 1, !.pc = "end"]
      [] OTHER -> p

\* the Runner after the script did the deed
perform(r, deed) ==
    CASE deed = "cd" -> [r EXCEPT !.Dir = "/w"]
      [] deed = "set" -> [r EXCEPT !.now.Params = <<Word("s")>>]
      [] deed = "seto" -> [r EXCEPT !.now.opts[2] = ~@]
      [] deed = "exec" -> [r EXCEPT !.now.stdin = "redir", !.now.stdout = "redir",
                                    !.now.stderr = "redir"]
      [] deed = "func" -> [r EXCEPT !.acc.Funcs = ("f" :> "body") @@ @]
      [] deed = "refunc" -> [r EXCEPT !.acc.Funcs = ("f" :> "other") @@ @]
      [] deed = "unfunc" -> [r EXCEPT !.acc.Funcs = Deleted(@, "f")]
      [] deed = "alias" -> [r EXCEPT !.acc.alias = ("l" :> "ls") @@ @]
      [] deed = "unalias" -> [r EXCEPT !.acc.alias = Deleted(@, "l")]
      [] deed = "pushd" -> [r EXCEPT !.dirStack = Append(@, "/w"), !.Dir = "/w"]
      [] deed = "popd" -> IF Len(r.dirStack) < 2 THEN r
                          ELSE [r EXCEPT !.dirStack = SubSeq(@, 1, Len(@) - 1),
                                         !.Dir = r.dirStack[Len(r.dirStack) - 1]]
      [] deed = "trap" -> [r EXCEPT !.acc.callbackErr = "t", !.acc.callbackExit = "t"]
      [] deed = "bg" -> [r EXCEPT !.acc.bgProcs = Append(@, FreshId(DOMAIN procs))]
      [] OTHER -> r

\* r.stmts, r.stmt, r.cmd: the executor leaves its effect in the Runner; it
\* sets an error or the exit flag when the script raises one and leaves
\* them alone otherwise
execute(r, rid, eff, k) ==
    [perform(r, eff.does) EXCEPT
        !.writeEnv = IF eff.name = "" THEN @ ELSE ovSet(@, eff.name, Var(Token(rid, k), FALSE)),
        !.fatalErr = IF eff.fatal = NoErr THEN @ ELSE eff.fatal,
        !.nonFatalHandlerErr = IF eff.handler = NoErr THEN @ ELSE eff.handler,
        !.exit = eff.exit,
        !.exiting = IF eff.exiting THEN TRUE ELSE @]

\* what the Runners other than rid see of what rid did: a map or an array
\* that two Runners hold is one object, changed for both
shared(rs, rid) ==
    [c \in DOMAIN rs |->
        IF c = rid THEN rs[c]
        ELSE [rs[c] EXCEPT
                !.acc.Funcs = IF rs[c].refs.Funcs = rs[rid].refs.Funcs
                              THEN rs[rid].acc.Funcs ELSE @,
                !.acc.alias = IF rs[c].refs.alias = rs[rid].refs.alias
                              THEN rs[rid].acc.alias ELSE @,
                !.dirStack = IF rs[c].refs.dirStack = rs[rid].refs.dirStack
                             THEN rs[rid].dirStack ELSE @]]

\* r.exitShell at the end of a whole file
exitShell(r) == [r EXCEPT !.exiting = TRUE]

Result(kind, err, code) == [kind |-> kind, err |-> err, code |-> code]

\* a Run that looks at the exit code before the errors
runErrorExitFirst(r) ==
    IF r.exit # 0 THEN Result("ExitStatus", NoErr, ExitStatus(r.exit))
    ELSE IF r.fatalErr # NoErr THEN Result("fatal", r.fatalErr, 0)
    ELSE IF r.nonFatalHandlerErr # NoErr THEN Result("handler", r.nonFatalHandlerErr, 0)
    ELSE Result("nil", NoErr, 0)

\* the error Run returns for the Runner it leaves
runError(r) ==
    IF r.fatalErr # NoErr THEN Result("fatal", r.fatalErr, 0)
    ELSE IF r.nonFatalHandlerErr # NoErr THEN Result("handler", r.nonFatalHandlerErr, 0)
    ELSE IF r.exit # 0 THEN Result("ExitStatus", NoErr, ExitStatus(r.exit))
    ELSE Result("nil", NoErr, 0)

Outcome(op, rid, node, result) == [op |-> op, rid |-> rid, node |-> node, result |-> result]

\* the outcome of a Run, with what Exited() and FatalErr() returned before
\* the call on the Runner r and what the executor raised during it
Seen(o, r, eff) ==
    [op |-> o.op, rid |-> o.rid, node |-> o.node, result |-> o.result,
     was |-> [exiting |-> r.exiting, fatalErr |-> r.fatalErr],
     did |-> [exiting |-> eff.exiting, fatal |-> eff.fatal, handler |-> eff.handler,
              exit |-> eff.exit]]
NoRun == Outcome("", 0, "", Result("nil", NoErr, 0))

\* a call on a Runner leaves the filesystem and the host alone
RunnerFrame == UNCHANGED <<vfsVars, pathVars, concVars>>

\* and, unless it starts a background job, the jobs
RunnerOnly == RunnerFrame /\ UNCHANGED procs

\* an environment of the host that sets HOME and x
HostEnv == [HOME |-> Var(Lit("/home"), FALSE), x |-> Var(Lit("base"), FALSE)]
Envs == {NoEnv, HostEnv}

\* the host made the Runner r
RunnerMade(r) ==
    /\ runners = (1 :> r)
    /\ outcome = NoRun
    /\ forks = <<>>
    /\ epoch = (1 :> 0)
    /\ procs = <<>>

\* the host made one Runner, with the environment env
RunnerWith(env) == RunnerMade(NewRunner(env))

\* the Runners a host may set up with WithEnv, WithDir, WithParams and
\* WithStdIO before the first Reset
Configured ==
    {[NewRunner(env) EXCEPT !.Dir = dir, !.now = st, !.inj = inj] :
        env \in Envs, dir \in {"/", "/home"},
        st \in {NoSettings,
                Settings(<<Word("p")>>, [NoOpts EXCEPT ![2] = TRUE], "in", "out", "err")},
        inj \in {Injected("NewMemFS", "Commands", TRUE), Injected("dirFS", "Commands", FALSE)}}

\* Dir, the settings, the accumulated state and the injected configuration
\* of a Runner, with the baseline Reset restores
Conf(r) ==
    [Dir |-> r.Dir, now |-> r.now, origDir |-> r.origDir, orig |-> r.orig,
     acc |-> r.acc, inj |-> r.inj, Env |-> r.Env, didReset |-> r.didReset]

RunnerInit == \E env \in Envs : RunnerWith(env)

Reset(rid) ==
    /\ runners' = [runners EXCEPT ![rid] = reset(runners, @)]
    /\ outcome' = [op |-> "Reset", rid |-> rid, node |-> "", result |-> Result("nil", NoErr, 0),
                   was |-> Conf(runners[rid])]
    /\ forks' = IF rid \in DOMAIN forks THEN [forks EXCEPT ![rid].kept = FALSE] ELSE forks
    /\ UNCHANGED epoch
    /\ RunnerOnly

\* a Run that keeps the markers of the call before
clearTransientSkipped(r) == r

\* Run clears the markers of the call before
clearTransient(r) == [r EXCEPT !.fatalErr = NoErr, !.exiting = FALSE]

Run(rid, node, eff) ==
    LET r0 == ensureReset(runners, runners[rid])
        r1 == clearTransient(r0)
        r2 == execute(r1, rid, eff, epoch[rid])
        r3 == IF node = "File" /\ ~r2.exiting THEN exitShell(r2) ELSE r2
        r4 == [r3 EXCEPT !.Vars = ovEach(runners, r3.writeEnv) @@ @]
    IN /\ IF node \in {"File", "Stmt", "Command"}
          THEN /\ runners' = shared([runners EXCEPT ![rid] = r4], rid)
               /\ outcome' = Seen(Outcome("Run", rid, node, runError(r4)), runners[rid], eff)
          ELSE /\ runners' = [runners EXCEPT ![rid] = r1]
               /\ outcome' = Seen(Outcome("Run", rid, node,
                                          Result("node", "node can only be File, Stmt, or Command", 0)),
                                  runners[rid], Effect("", NoErr, NoErr, 0, FALSE))
       /\ eff.does = "pushd" => Len(r0.dirStack) < MaxDirs
       /\ eff.does = "bg" => /\ Len(r0.acc.bgProcs) < MaxJobs
                              /\ Cardinality(DOMAIN procs) < MaxProcs
       /\ procs' = IF eff.does = "bg" /\ node \in {"File", "Stmt", "Command"}
                   THEN procs @@ (FreshId(DOMAIN procs) :> bgProc(rid))
                   ELSE procs
       /\ UNCHANGED <<forks, epoch>>
       /\ RunnerFrame

\* the goroutine of the background job h takes its next step
JobStep(h, code) ==
    /\ procs[h].pc # "end"
    /\ procs' = [procs EXCEPT ![h] = jobStep(@, code)]
    /\ UNCHANGED <<runners, outcome, forks, epoch>>
    /\ RunnerFrame

\* the Runner rid waits for its job number pid: it receives from done, which
\* it can once the channel is closed, and reads *bg.exit
Wait(rid, pid) ==
    LET h == runners[rid].acc.bgProcs[pid]
    IN /\ procs[h].done > 0
       /\ outcome' = [op |-> "wait", rid |-> rid, node |-> "",
                      result |-> Result("nil", NoErr, procs[h].exit.val),
                      pid |-> pid, slot |-> procs[h].exit]
       /\ UNCHANGED <<runners, forks, epoch, procs>>
       /\ RunnerFrame

\* the host applies WithParams(args...) to the Runner it has just made
WithParams(rid, args) ==
    LET w == withParams(runners[rid], flagParser(args))
    IN /\ outcome = NoRun
       /\ runners' = [runners EXCEPT ![rid] = w.r]
       /\ outcome' = [op |-> "WithParams", rid |-> rid, node |-> "",
                      result |-> Result(IF w.err = NoErr THEN "nil" ELSE "option", w.err, 0),
                      args |-> args, was |-> Conf(runners[rid])]
       /\ UNCHANGED <<forks, epoch>>
       /\ RunnerOnly

\* a subshell that takes the maps and the array of its parent as they are
clonedNot(r, c) == r.refs

\* maps.Clone(r.Funcs), maps.Clone(r.alias) and the append to
\* r2.dirBootstrap[:0]: the copy c gets maps and an array of its own
cloned(r, c) == Own(c)

\* Runner.subshell: the copy of the Runner rid gets the id c
subshell(rid, background) ==
    LET c == FreshId(DOMAIN runners)
        r == ensureReset(runners, runners[rid])
        rs == [runners EXCEPT ![rid] = r]
        r2 == [Env |-> NoEnv, Dir |-> r.Dir, origDir |-> "", dirStack |-> r.dirStack,
               writeEnv |-> newOverlayEnviron(rs, rid, background),
               Vars |-> <<>>,
               fatalErr |-> NoErr, nonFatalHandlerErr |-> NoErr,
               exit |-> r.exit, exiting |-> FALSE, didReset |-> TRUE,
               now |-> r.now,
               orig |-> [NoSettings EXCEPT !.stdout = r.orig.stdout],
               acc |-> [NoAccumulated EXCEPT !.Funcs = r.acc.Funcs, !.alias = r.acc.alias],
               inj |-> r.inj,
               refs |-> cloned(r, c)]
    IN /\ Cardinality(DOMAIN runners) < MaxRunners
       /\ runners' = rs @@ (c :> r2)
       /\ outcome' = NoRun
       /\ forks' = forks @@ (c :> [parent |-> rid,
                                   view |-> [n \in VarNames |-> ovGet(rs, r.writeEnv, n)],
                                   at |-> epoch[rid],
                                   kept |-> TRUE])
       /\ epoch' = [epoch EXCEPT ![rid] = @ + 1] @@ (c :> 0)
       /\ RunnerOnly

\* a Subshell that asks for the foreground copy, which shares the overlay
\* of its parent
SubshellForeground(rid) == subshell(rid, FALSE)

Subshell(rid) == subshell(rid, TRUE)

\* The tree: every path, files of one byte written whole.
TreePayloads == {<<1>>}
TreePerms == {Mode(420, FALSE)}

Next ==
    \/ \E path \in Paths, perm \in DirPerms : MkdirAll(path, perm)
    \/ \E path \in Paths, data \in TreePayloads, perm \in TreePerms : WriteFile(path, data, perm)
    \/ \E path \in Paths : Remove(path)
    \/ \E path \in Paths : RemoveAll(path)
    \/ \E path \in Paths : ReadDirCall(path)

Init == VfsInit /\ PathInit /\ RunnerWith(NoEnv)

Spec == Init /\ [][Next]_vars

\* The content of one file: every payload, written whole and through
\* sessions opened with O_CREATE|O_TRUNC.
DataPaths == {<<"a">>}
DataPerms == {Mode(420, FALSE), Mode(493, TRUE)}

NextData ==
    \/ \E path \in DataPaths, data \in Payloads, perm \in DataPerms : WriteFile(path, data, perm)
    \/ \E path \in DataPaths, perm \in DataPerms : OpenFileCall(path, TRUE, TRUE, perm)
    \/ \E s \in DOMAIN open, data \in Payloads : Write(s, data)
    \/ \E s \in DOMAIN open : Close(s)

SpecData == Init /\ [][NextData]_vars

\* A snapshot of BaseFS: its files read and written, whole and through
\* sessions.
BaseEntries == {BaseFS[i] : i \in DOMAIN BaseFS}
SnapPaths == {e.path : e \in {x \in BaseEntries : ~x.dir}}
SnapPayloads == {<<>>, <<1>>}
SnapPerms == {Mode(420, FALSE)}

NextSnap ==
    \/ \E path \in SnapPaths, data \in SnapPayloads, perm \in SnapPerms : WriteFile(path, data, perm)
    \/ \E path \in SnapPaths : ReadFileCall(path)
    \/ \E path \in SnapPaths, trunc \in BOOLEAN, perm \in SnapPerms :
           OpenFileCall(path, FALSE, trunc, perm)
    \/ \E s \in DOMAIN open : Read(s)
    \/ \E s \in DOMAIN open, data \in SnapPayloads : Write(s, data)
    \/ \E s \in DOMAIN open : Close(s)

SnapInit ==
    LET t == SnapshotFS(BaseFS)
    IN /\ dirs = t.dirs
       /\ files = t.files
       /\ heap = t.heap
       /\ arrs = t.arrs
       /\ opened = t.opened
       /\ open = <<>>
       /\ log = <<>>
       /\ ret = Call("SnapshotFS", <<>>, <<>>, Nil, <<>>)
       /\ ConcInit

InitSnap == SnapInit /\ PathInit /\ RunnerWith(NoEnv)

SpecSnap == InitSnap /\ [][NextSnap]_vars

\* Goroutines on one memFS, each in one call at a time.
NextConc ==
    \/ \E t \in Goroutines, call \in ConcCalls : Begin(t, call)
    \/ \E t \in Goroutines : getFileStep(t)
    \/ \E t \in Goroutines : getDirStep(t)
    \/ \E t \in Goroutines : StatStep(t)
    \/ \E t \in Goroutines : ReadDirStep(t)
    \/ \E t \in Goroutines : WriteFileStep(t)
    \/ \E t \in Goroutines : MkdirAllStep(t)
    \/ \E t \in Goroutines : removePathStep(t)

SpecConc == Init /\ [][NextConc]_vars

\* The seeding of Reset: every base environment that supplies some of the
\* seeded variables, both directories, scripts that write a seeded variable
\* or change directory.
SeedEnvs == {[n \in S |-> Var(Lit("base"), FALSE)] : S \in SUBSET SeedVars}
SeedEffects ==
    {Effect(name, NoErr, NoErr, 0, FALSE) : name \in {"HOME", "PWD"}}
    \cup {Doing(Effect("", NoErr, NoErr, 0, FALSE), "cd")}

NextSeed ==
    \/ Reset(1)
    \/ \E eff \in SeedEffects : Run(1, "Stmt", eff)

InitSeed ==
    /\ VfsInit /\ PathInit
    /\ \E env \in SeedEnvs, dir \in {"/", "/home"} : RunnerMade([NewRunner(env) EXCEPT !.Dir = dir])

SpecSeed == InitSeed /\ [][NextSeed]_vars

\* The background jobs: scripts that start a job, Resets, subshells, the
\* goroutines of the jobs and the Runners waiting for them.
JobEffects == {Doing(Effect("", NoErr, NoErr, 0, FALSE), "bg")}
JobCodes == {0, 1}

NextJobs ==
    \/ \E rid \in DOMAIN runners : Reset(rid)
    \/ \E rid \in DOMAIN runners, eff \in JobEffects : Run(rid, "Stmt", eff)
    \/ \E rid \in DOMAIN runners : Subshell(rid)
    \/ \E h \in DOMAIN procs, code \in JobCodes : JobStep(h, code)
    \/ \E rid \in DOMAIN runners :
          \E pid \in DOMAIN runners[rid].acc.bgProcs : Wait(rid, pid)

InitJobs == VfsInit /\ PathInit /\ RunnerWith(NoEnv)

SpecJobs == InitJobs /\ [][NextJobs]_vars

\* The tables of a Runner and of its subshell: scripts that define, replace
\* and remove functions and aliases and push and pop directories, in both.
TableEffects == {Doing(Effect("", NoErr, NoErr, 0, FALSE), deed) : deed \in TableDeeds}

NextFork ==
    \/ \E rid \in DOMAIN runners : Reset(rid)
    \/ \E rid \in DOMAIN runners, eff \in TableEffects : Run(rid, "Stmt", eff)
    \/ \E rid \in DOMAIN runners : Subshell(rid)

InitFork == VfsInit /\ PathInit /\ RunnerWith(NoEnv)

SpecFork == InitFork /\ [][NextFork]_vars

\* cleanse: every name of up to MaxName characters out of a slash, a dot and
\* a letter; the filesystem cleanses the name, and a caller may hand the
\* cleansed name back.
NameChars == {"/", ".", "a"}
NameStrings == UNION {[1..n -> NameChars] : n \in 0..MaxName}

Cleanse ==
    /\ ret' = Call("cleanse", ret.out, <<>>, Nil, cleanse(ret.out))
    /\ UNCHANGED <<dirs, files, heap, arrs, open, log, opened>>
    /\ VfsOnly

NextClean == Cleanse

InitClean ==
    /\ dirs = <<>> /\ files = <<>> /\ heap = <<>> /\ arrs = <<>>
    /\ open = <<>> /\ log = <<>> /\ opened = {}
    /\ \E name \in NameStrings : ret = Call("name", <<>>, <<>>, Nil, name)
    /\ ConcInit /\ PathInit /\ RunnerWith(NoEnv)

SpecClean == InitClean /\ [][NextClean]_vars

\* The builtins: a tree built by mkdir and WriteFile, and every builtin
\* on every list of up to MaxArgList paths, with streams that work and
\* streams that fail.
BuiltinPaths == {<<"a">>, <<"b">>, <<"a", "a">>}
PathLists == UNION {[1..n -> BuiltinPaths] : n \in 0..MaxArgList}
RmArgs == UNION {[1..n -> BuiltinPaths \cup {<<"-r">>}] : n \in 0..MaxArgList}
Streams == {"nil", "open"}

NextBuiltin ==
    \/ \E path \in {<<"b">>, <<"a", "a">>}, data \in TreePayloads, perm \in TreePerms :
          WriteFile(path, data, perm)
    \/ \E args \in PathLists, writes \in BOOLEAN : Cat(args, writes)
    \/ \E stdin \in Streams, stdout \in Streams, reads \in BOOLEAN : CatStdin(stdin, stdout, reads)
    \/ \E args \in RmArgs : Rm(args)
    \/ \E args \in {l \in PathLists : Len(l) <= 1} : Ls(args)
    \/ \E args \in PathLists : Mkdir(args)
    \/ \E parses \in BOOLEAN : Sleep(parses)

SpecBuiltin == Init /\ [][NextBuiltin]_vars

\* The exit code: the field exit is an int, and the executor may leave in
\* it whatever a script hands to exit; 256 and 257 are the first two codes
\* that do not fit the 8 bits of an ExitStatus.
ExitCodes == {0, 1, 255, 256, 257}
ExitEffects ==
    {Effect("", fatal, handler, exit, exiting) :
        fatal \in {NoErr, "read error"}, handler \in {NoErr, "handler error"},
        exit \in ExitCodes, exiting \in BOOLEAN}

NextExit ==
    \/ \E rid \in DOMAIN runners : Reset(rid)
    \/ \E rid \in DOMAIN runners, node \in NodeKinds, eff \in ExitEffects : Run(rid, node, eff)

InitExit == VfsInit /\ PathInit /\ RunnerInit

SpecExit == InitExit /\ [][NextExit]_vars

\* The PATH lookup: every PATH, both directories, every host.
NextPath ==
    \/ \E file \in Cmds : LookPath(file)
    \/ \E v \in PathStrings : SetPATH(v)
    \/ \E d \in WorkDirs : Chdir(d)
    \/ \E p \in HostPaths, node \in HostNodes : HostChange(p, node)

SpecPath == Init /\ [][NextPath]_vars

\* The outcome of Run: every node, every outcome of the executor.
RunEffects ==
    {Effect(name, fatal, handler, exit, exiting) :
        name \in {"", "x"}, fatal \in {NoErr, "read error"}, handler \in {NoErr, "handler error"},
        exit \in {0, 1, 255}, exiting \in BOOLEAN}

NextRun ==
    \/ \E rid \in DOMAIN runners : Reset(rid)
    \/ \E rid \in DOMAIN runners, node \in NodeKinds, eff \in RunEffects : Run(rid, node, eff)

InitRun == VfsInit /\ PathInit /\ RunnerInit

SpecRun == InitRun /\ [][NextRun]_vars

\* The variables of a Runner and its subshells: scripts that write them.
SubEffects ==
    {Effect(name, NoErr, NoErr, exit, FALSE) : name \in UserVars \cup {""}, exit \in {0}}

NextSub ==
    \/ \E rid \in DOMAIN runners : Reset(rid)
    \/ \E rid \in DOMAIN runners, eff \in SubEffects : Run(rid, "Stmt", eff)
    \/ \E rid \in DOMAIN runners : Subshell(rid)

InitSub == VfsInit /\ PathInit /\ RunnerWith(HostEnv)

SpecSub == InitSub /\ [][NextSub]_vars

\* Reset: every configuration of the host, scripts that change what Reset
\* restores and build up what it clears.
ResetEffects == {Doing(Effect("", NoErr, NoErr, 0, FALSE), deed) : deed \in Deeds}

NextReset ==
    \/ \E rid \in DOMAIN runners : Reset(rid)
    \/ \E rid \in DOMAIN runners, eff \in ResetEffects : Run(rid, "Stmt", eff)

InitReset == VfsInit /\ PathInit /\ \E r \in Configured : RunnerMade(r)

SpecReset == InitReset /\ [][NextReset]_vars

\* WithParams: every list of arguments, on every configuration.
Args == {<<"-", "e">>, <<"+", "e">>, <<"-", "o">>, <<"-">>, <<"-", "-">>,
         Word("p"), Word("errexit")}

ArgLists == UNION {[1..n -> Args] : n \in 0..MaxArgs}

NextParams == \E rid \in DOMAIN runners, args \in ArgLists : WithParams(rid, args)

SpecParams == InitReset /\ [][NextParams]_vars

----------------------------------------------------------------------------
(* Properties of the filesystem.                                           *)

\* the directory at path p has at least one child
Populated(t, p) ==
    /\ p \in DOMAIN t.dirs
    /\ ChildDirs(t, p) # {} \/ ChildFiles(t, p) # {}

\* the tree, as the calls see it
Tree(t) == [dirs |-> t.dirs,
            files |-> [p \in DOMAIN t.files |->
                          [info |-> FileInfo(t, t.files[p]),
                           content |-> Bytes(t, t.heap[t.files[p]].content)]]]

\* C1: in every reachable state of the tree, no directory holds a child
\* file and a child subdirectory of the same name.
C1_NameDenotesOneEntry ==
    \A p \in DOMAIN files : p \notin DOMAIN dirs

\* C6: Remove of a directory (below the root) that has a child returns
\* fs.ErrInvalid and leaves directories, files and contents as they were.
C6_RemovePopulatedInvalid ==
    [][\A p \in Paths :
          (Populated(VFS, p) /\ ret'.op = "Remove" /\ ret'.path = p)
          => (ret'.err.kind = "ErrInvalid" /\ Tree(VFS') = Tree(VFS))]_vfsVars

\* C7: once RemoveAll(p) of a directory (below the root) that has a child
\* has returned, Stat(p) returns NotExist.
C7_RemoveAllThenStatNotExist ==
    [][\A p \in Paths :
          (Populated(VFS, p) /\ ret'.op = "RemoveAll" /\ ret'.path = p)
          => Stat(VFS', p).err.kind = "ErrNotExist"]_vfsVars

Sorted(entries) ==
    \A i, j \in 1..Len(entries) : i < j => Rank(entries[i].name) <= Rank(entries[j].name)

Occurs(e, entries) == Cardinality({i \in 1..Len(entries) : entries[i] = e})

FileOnPath(t, p) == \E k \in 1..Len(p) : SubSeq(p, 1, k) \in DOMAIN t.files

\* C9: MkdirAll returns Exist exactly when a file occupies a segment of the
\* path and nil otherwise; on a path that is already a directory it returns
\* nil and changes no listing (so a second MkdirAll is a no-op).
C9_MkdirAllIdempotent ==
    [][\A p \in Paths :
          (ret'.op = "MkdirAll" /\ ret'.path = p /\ ret' # ret)
          => /\ ret'.err.kind = "ErrExist" <=> FileOnPath(VFS, p)
             /\ ret'.err.kind \in {"nil", "ErrExist"}
             /\ DirExists(VFS, p) => (ret'.err = Nil /\ Tree(VFS') = Tree(VFS))]_vfsVars

\* C10: what a successful WriteFile wrote is what ReadFile returns; and
\* what a session opened with O_CREATE|O_TRUNC has written in one or more
\* Write calls, no other caller writing meanwhile, is what ReadFile returns.
C10_RoundTrip ==
    /\ (ret.op = "WriteFile" /\ ret.err = Nil)
       => ReadFile(VFS, ret.path) = [err |-> Nil, out |-> ret.data]
    /\ \A s \in DOMAIN open :
          (log[s].fresh /\ log[s].calls >= 1 /\ log[s].alone)
          => ReadFile(VFS, log[s].path) = [err |-> Nil, out |-> log[s].written]

\* C17: an error a call on the filesystem returns is NotExist, Exist or
\* Invalid and carries the name of the operation and the path of the call.
C17_ErrorsCarryContext ==
    ret.err # Nil =>
        /\ ret.err.kind \in {"ErrNotExist", "ErrExist", "ErrInvalid"}
        /\ ret.err.ctx
        /\ ret.err.op # ""
        /\ ret.err.path = ret.path

\* the bytes a reader of the whole file at path gets are those of the file
\* of the source at the same path
SnapshotReadsReproduce ==
    /\ ret.op = "ReadFile" => (ret.err = Nil /\ ret.out = BaseBytes(ret.path))
    /\ \A p \in SnapPaths : ReadFile(VFS, p) = [err |-> Nil, out |-> BaseBytes(p)]

\* every directory of the source is in the snapshot
SnapshotDirsEager == \A e \in BaseEntries : e.dir => DirExists(VFS, e.path)

\* C15: a snapshot has every directory of the source from the start and
\* opens no file of the source while it is built; a file of the source is
\* opened only by the first Read of a session on the file of the snapshot,
\* and reading a file of the snapshot gives the bytes of the source.
C15_SourceOpenedOnFirstRead ==
    /\ SnapshotDirsEager
    /\ ret.op = "SnapshotFS" => opened = {}
    /\ \A o \in opened : o.by = "Read"
    /\ SnapshotReadsReproduce

\* a path WriteFile is to succeed on: the parent is a directory and the
\* path is not one
Writable(t, path) ==
    /\ path # <<>>
    /\ getDir(t, <<>>, SubSeq(path, 1, Len(path) - 1)).ok
    /\ ~getDir(t, <<>>, path).ok

\* size and mode of every file
Metadata(t) == [f \in DOMAIN t.heap |-> [size |-> t.heap[f].size, mode |-> t.heap[f].mode]]

\* C16: WriteFile on a path whose parent exists and that is no directory
\* succeeds, on a file of a snapshot too, and the file then holds the bytes
\* given; a WriteFile that fails leaves size and mode of every file alone.
C16_WriteFileReplacesOrCreates ==
    [][ret'.op = "WriteFile" =>
         /\ Writable(VFS, ret'.path) =>
              (ret'.err = Nil /\ ReadFile(VFS', ret'.path) = [err |-> Nil, out |-> ret'.data])
         /\ ret'.err # Nil => Metadata(VFS') = Metadata(VFS)]_vfsVars

\* the node whose lock the next step of a goroutine takes
WaitsOn(th) ==
    CASE th.pc \in {"fileStat", "fileOpen"} -> th.file
      [] th.pc = "rdStat" -> th.todo[1]
      [] th.pc \in {"overwrite", "overwriteInfo", "overwriteData", "subRemovePath",
                    "subRemoveDir", "subRemoveDirLock"} -> th.sub
      [] OTHER -> th.at

\* two paths in one directory
Siblings(p, q) ==
    p # q /\ Len(p) = Len(q) /\ SubSeq(p, 1, Len(p) - 1) = SubSeq(q, 1, Len(q) - 1)

\* C11: of two goroutines in WriteFile on two files of one directory,
\* neither waits for a lock the other holds while it writes.
C11_WritersDoNotBlock ==
    \A t, u \in Goroutines :
        (/\ InCall(t) /\ threads[t].op = "WriteFile"
         /\ InCall(u) /\ threads[u].op = "WriteFile"
         /\ Siblings(threads[t].path, threads[u].path))
        => ~(Blocked(u) /\ nodes[WaitsOn(threads[u])].lock.w = t)

\* d.files[name] down the path from the root, 0 if there is none
RECURSIVE FileAt(_, _, _)
FileAt(ns, d, path) ==
    IF Len(path) = 1
    THEN IF path[1] \in DOMAIN ns[d].files THEN ns[d].files[path[1]] ELSE 0
    ELSE IF path[1] \in DOMAIN ns[d].dirs THEN FileAt(ns, ns[d].dirs[path[1]], Tail(path))
    ELSE 0

\* every goroutine has made one call, a WriteFile on path that returned nil
AllWrote(path, payloads) ==
    \A t \in Goroutines :
        /\ threads[t].pc = "done" /\ threads[t].calls = 1 /\ threads[t].err = ""
        /\ threads[t].op = "WriteFile" /\ threads[t].path = path
        /\ threads[t].data \in payloads

\* C12: when all the goroutines have written one file whole, each once and
\* at the same time or one after the other, the file holds the payload of
\* one of them.
C12_OneWritersPayload ==
    \A p \in ConcPaths :
        AllWrote(p, ConcPayloads) =>
            nodes[FileAt(nodes, Root, p)].content \in {threads[t].data : t \in Goroutines}

\* the same for the payloads that are not empty
WritersNeverMix ==
    \A p \in ConcPaths :
        AllWrote(p, ConcPayloads \ {<<>>}) =>
            nodes[FileAt(nodes, Root, p)].content \in {threads[t].data : t \in Goroutines}

\* C13: whatever changes a directory or a file does so inside the Lock()
\* of that directory or file, Remove and RemoveAll too.
C13_MutationUnderLock == did.excl

\* every lock is taken while only locks of nodes nearer to the root are held
LockOrder == \A t \in Goroutines : threads[t].ordered

\* while the process runs and a call is pending, some call can take a step
NoDeadlock ==
    (fault = "none" /\ \E t \in Goroutines : InCall(t))
    => \E t \in Goroutines : InCall(t) /\ ~Blocked(t)

\* C14: locks are taken parent to child, no set of calls waits for one
\* another, and every call returns: none ends the process.
C14_EveryCallReturns == LockOrder /\ NoDeadlock /\ fault = "none"

----------------------------------------------------------------------------
(* Properties of the Runner.                                               *)

\* C2: a Run of a File, a Stmt or a Command returns the fatal error if one
\* is set; otherwise the handler error if one is set; otherwise, if the
\* exit code is not zero, an ExitStatus that carries it; otherwise nil.
C2_RunOutcomePriority ==
    (outcome.op = "Run" /\ outcome.node \in {"File", "Stmt", "Command"}) =>
        LET r == runners[outcome.rid]
            res == outcome.result
        IN /\ r.fatalErr # NoErr => (res.kind = "fatal" /\ res.err = r.fatalErr)
           /\ (r.fatalErr = NoErr /\ r.nonFatalHandlerErr # NoErr) =>
                 (res.kind = "handler" /\ res.err = r.nonFatalHandlerErr)
           /\ (r.fatalErr = NoErr /\ r.nonFatalHandlerErr = NoErr /\ r.exit # 0) =>
                 (res.kind = "ExitStatus" /\ res.code = r.exit)
           /\ (r.fatalErr = NoErr /\ r.nonFatalHandlerErr = NoErr /\ r.exit = 0) =>
                 res.kind = "nil"

\* a Run ended with a fatal error, a handler error and a non-zero exit
\* code all set, and returned the fatal error
C2_Witness ==
    /\ outcome.op = "Run"
    /\ runners[outcome.rid].fatalErr # NoErr
    /\ runners[outcome.rid].nonFatalHandlerErr # NoErr
    /\ runners[outcome.rid].exit = 255
    /\ outcome.result.kind = "fatal"

\* C18, as claimed: after a Run during which the executor did not exit,
\* Exited() is false, and after a Run during which it raised no fatal
\* error, FatalErr() is nil, whatever the Runs before left.
C18_FlagsOfThisRunOnly ==
    outcome.op = "Run" =>
        /\ ~outcome.did.exiting => ~runners[outcome.rid].exiting
        /\ outcome.did.fatal = NoErr => runners[outcome.rid].fatalErr = NoErr

\* C18, amended: after a Run, FatalErr() is the fatal error the executor
\* raised during that call, nil if it raised none; after a Run of a Stmt or
\* a Command, Exited() tells whether the executor exited during that call;
\* after a Run of a whole File, Exited() is true, the script having exited
\* or not; after a Run of another node both are cleared.  What the Runs
\* before left never shows.
C18_FlagsOfThisRunFileExits ==
    outcome.op = "Run" =>
        LET r == runners[outcome.rid]
        IN /\ r.fatalErr = outcome.did.fatal
           /\ outcome.node \in {"Stmt", "Command"} => r.exiting = outcome.did.exiting
           /\ outcome.node = "File" => r.exiting
           /\ outcome.node = "Other" => ~r.exiting

\* a Stmt ran without exit and without fatal error on a Runner whose Run
\* before had left both, and Exited() and FatalErr() show neither
C18_Witness ==
    /\ outcome.op = "Run"
    /\ outcome.node = "Stmt"
    /\ outcome.was.exiting
    /\ outcome.was.fatalErr # NoErr
    /\ ~outcome.did.exiting
    /\ outcome.did.fatal = NoErr
    /\ ~runners[outcome.rid].exiting
    /\ runners[outcome.rid].fatalErr = NoErr

\* C19: a Reset leaves Dir, the positional parameters, the options and the
\* streams at the baseline, which is what they were at the first Reset and
\* what it was before any later one; it leaves no function, no alias, no
\* trap and no background job; and it leaves the filesystem handle, the
\* command table, the TTY flag and the base environment as they were.
C19_ResetRestoresBaseline ==
    outcome.op = "Reset" =>
        LET r == runners[outcome.rid]
            was == outcome.was
            baseDir == IF was.didReset THEN was.origDir ELSE was.Dir
            base == IF was.didReset THEN was.orig ELSE was.now
        IN /\ r.origDir = baseDir /\ r.orig = base
           /\ r.Dir = baseDir /\ r.now = base
           /\ r.acc = NoAccumulated
           /\ r.inj = was.inj /\ r.Env = was.Env

\* a Runner the host set up with its own directory, parameters, options
\* and streams was Reset after scripts had changed every one of them, had
\* defined a function and an alias, set a trap and started a job: it is
\* back at what the host set up
C19_Witness ==
    /\ outcome.op = "Reset"
    /\ outcome.was.didReset
    /\ outcome.was.Dir = "/w" /\ outcome.was.origDir = "/home"
    /\ outcome.was.now = Settings(<<Word("s")>>, NoOpts, "redir", "redir", "redir")
    /\ outcome.was.acc = Accumulated(("f" :> "body"), ("l" :> "ls"), "t", "t", <<1>>)
    /\ runners[outcome.rid].Dir = "/home"
    /\ runners[outcome.rid].now = Settings(<<Word("p")>>, [NoOpts EXCEPT ![2] = TRUE], "in", "out", "err")
    /\ runners[outcome.rid].acc = NoAccumulated

\* What a list of arguments asks for: the arguments left when the options
\* end, and how they end - at the end of the list ("end"), at a "--"
\* ("ddash"), at a "-" ("dash") or at the first argument that is no option
\* ("word").  An -o or +o takes the argument after it as its name.
RECURSIVE Asked(_)
Asked(args) ==
    IF args = <<>> THEN [how |-> "end", rest |-> <<>>]
    ELSE LET a == Head(args)
         IN IF a = <<"-", "-">> THEN [how |-> "ddash", rest |-> Tail(args)]
            ELSE IF a = <<"-">> THEN [how |-> "dash", rest |-> Tail(args)]
            ELSE IF a[1] \notin {"-", "+"} THEN [how |-> "word", rest |-> args]
            ELSE IF a[2] = "o" /\ Len(args) > 1 THEN Asked(Tail(Tail(args)))
            ELSE Asked(Tail(args))

\* C20, as claimed: a WithParams that returns no error replaces the
\* positional parameters by the arguments that follow the options, the -
\* or the --, if there is at least one, and leaves them as they were if
\* there is none.
C20_ParamsOnlyIfTokenFollows ==
    (outcome.op = "WithParams" /\ outcome.result.kind = "nil") =>
        LET a == Asked(outcome.args)
        IN runners[outcome.rid].now.Params =
              IF a.rest # <<>> THEN a.rest ELSE outcome.was.now.Params

\* C20, amended: a WithParams that returns no error replaces the positional
\* parameters by the arguments that follow the options or the -, if there
\* is at least one, and leaves them as they were if there is none; after a
\* -- it replaces them by what follows even if nothing does, so a bare --
\* empties them.
C20_ParamsUnlessDoubleDash ==
    (outcome.op = "WithParams" /\ outcome.result.kind = "nil") =>
        LET a == Asked(outcome.args)
        IN runners[outcome.rid].now.Params =
              IF a.rest # <<>> \/ a.how = "ddash" THEN a.rest ELSE outcome.was.now.Params

\* a Runner with a positional parameter was given an option and a bare "-":
\* the option is off, the parameter is still there
C20_Witness ==
    /\ outcome.op = "WithParams"
    /\ outcome.result.kind = "nil"
    /\ outcome.args = << <<"+", "e">>, <<"-">> >>
    /\ outcome.was.now.Params = <<Word("p")>>
    /\ outcome.was.now.opts[2]
    /\ ~runners[outcome.rid].now.opts[2]
    /\ runners[outcome.rid].now.Params = <<Word("p")>>

\* what a lookup on the Runner rid shows for every name
\* what the variable name holds when nothing supplied it
SeedDefault(name, dir) ==
    CASE name = "HOME" -> Var(Lit("/"), FALSE)
      [] name \in {"UID", "EUID", "GID"} -> Var(Lit("0"), TRUE)
      [] name = "PWD" -> Var(Lit(dir), FALSE)
      [] name = "IFS" -> Var(Lit(" \t\n"), FALSE)
      [] name = "OPTIND" -> Var(Lit("1"), FALSE)

\* after a Reset of the Runner rid, the overlay shows for each of names what
\* the base supplies, and the default where the base supplies nothing
SeededUnlessSupplied(rid, names) ==
    \A n \in names :
        ovGet(runners, runners[rid].writeEnv, n) =
            IF n \in DOMAIN runners[rid].Env THEN runners[rid].Env[n]
            ELSE SeedDefault(n, runners[rid].Dir)

\* C21: after a Reset every one of HOME, UID, EUID, GID, PWD, IFS and OPTIND
\* that the base environment supplies still has the value of the base, and
\* every one it does not supply has its default.
C21_SeedsOnlyUnset ==
    outcome.op = "Reset" => SeededUnlessSupplied(outcome.rid, SeedVars)

\* C21, amended: that holds for HOME, UID, EUID and GID; PWD, IFS and OPTIND
\* have their defaults after every Reset, whatever the base supplies.
C21_SeedsOnlyUnsetIds ==
    outcome.op = "Reset" =>
        /\ SeededUnlessSupplied(outcome.rid, {"HOME", "UID", "EUID", "GID"})
        /\ \A n \in {"PWD", "IFS", "OPTIND"} :
               ovGet(runners, runners[outcome.rid].writeEnv, n)
                   = SeedDefault(n, runners[outcome.rid].Dir)

C21_Witness ==
    /\ outcome.op = "Reset"
    /\ ~outcome.was.didReset
    /\ {"HOME", "PWD"} \subseteq DOMAIN runners[1].Env
    /\ "UID" \notin DOMAIN runners[1].Env
    /\ ovGet(runners, runners[1].writeEnv, "HOME") = Var(Lit("base"), FALSE)
    /\ ovGet(runners, runners[1].writeEnv, "UID") = Var(Lit("0"), TRUE)
    /\ ovGet(runners, runners[1].writeEnv, "PWD") = Var(Lit(runners[1].Dir), FALSE)

\* C27: a Run during which the executor raised no handler error and no
\* fatal error and ended with the exit code 0 returns nil, whatever the Runs
\* before it on the same Runner returned.
C27_HandlerErrOfThisRunOnly ==
    (/\ outcome.op = "Run"
     /\ outcome.node \in {"File", "Stmt", "Command"}
     /\ outcome.did.handler = NoErr
     /\ outcome.did.fatal = NoErr
     /\ outcome.did.exit = 0) => outcome.result.kind = "nil"

\* C30: for every file whose content is held in memory, the size Stat
\* reports is the number of bytes that reading the file returns.
C30_SizeIsLength ==
    \A path \in DOMAIN files :
        heap[files[path]].opener = "lazyAccess" =>
            /\ Stat(VFS, path).err = Nil
            /\ Stat(VFS, path).out[1].size = Len(ReadFile(VFS, path).out)

\* C29: an ExitStatus that Run returns has a code from 1 to 255, which is
\* the exit code of the Runner at the end of the call.
C29_ExitStatusIsExitCode ==
    outcome.op = "Run" /\ outcome.result.kind = "ExitStatus" =>
        /\ outcome.result.code \in 1..255
        /\ outcome.result.code = runners[outcome.rid].exit

\* the directories of the model that are absolute paths
AbsoluteDirs == {"/", "/home", "/w"}

\* C28: after a Reset of a Runner, also of one that Subshell returned, Dir
\* is a non-empty absolute path and the first entry of the directory stack
\* is Dir.
C28_DirAfterReset ==
    outcome.op = "Reset" =>
        LET r == runners[outcome.rid]
        IN /\ r.Dir # ""
           /\ r.Dir \in AbsoluteDirs
           /\ r.dirStack # <<>>
           /\ r.dirStack[1] = r.Dir

Builtins == {"ls", "cat", "mkdir", "rm", "sleep"}

C25_CleanseIdempotent ==
    ret.op = "cleanse" =>
        /\ cleanse(ret.out) = ret.out
        /\ ~HasPrefix(ret.out, <<"/">>)
        /\ ~HasPrefix(ret.out, <<".", "/">>)

C25_Witness ==
    /\ ret.op = "cleanse"
    /\ ret.path = <<"/", ".", "/", "a">>
    /\ ret.out = <<"a">>

\* the functions, the aliases and the directory stack of the Runner r
Tables(r) == [Funcs |-> r.acc.Funcs, alias |-> r.acc.alias, dirStack |-> r.dirStack]

\* C24: the Runner Subshell returns has the filesystem and the command table
\* of its parent and keeps them; it starts with the functions, the aliases and
\* the directory stack of its parent, held in maps and an array of its own;
\* and a Run or a Reset of one Runner leaves the functions, the aliases and
\* the directory stack of every other Runner as they were.
C24_SubshellCopiesTables ==
    [][/\ \A c \in DOMAIN forks' :
            /\ runners'[c].inj.FileSystem = runners'[forks'[c].parent].inj.FileSystem
            /\ runners'[c].inj.Commands = runners'[forks'[c].parent].inj.Commands
       /\ \A c \in DOMAIN runners' \ DOMAIN runners :
            /\ Tables(runners'[c]) = Tables(runners'[forks'[c].parent])
            /\ \A t \in {"Funcs", "alias", "dirStack"} :
                  runners'[c].refs[t] # runners'[forks'[c].parent].refs[t]
       /\ outcome'.op \in {"Run", "Reset"} =>
            \A c \in DOMAIN runners \ {outcome'.rid} :
                Tables(runners'[c]) = Tables(runners[c])]_vars

C24_Witness ==
    /\ outcome.op = "Run"
    /\ 2 \in DOMAIN runners
    /\ runners[1].acc.Funcs = ("f" :> "other")
    /\ runners[2].acc.Funcs = ("f" :> "body")
    /\ runners[1].acc.alias = <<>>
    /\ runners[2].acc.alias = ("l" :> "ls")
    /\ Len(runners[1].dirStack) = 1
    /\ Len(runners[2].dirStack) = 2

\* the jobs in the list of the Runner r
JobsOf(r) == {r.acc.bgProcs[i] : i \in DOMAIN r.acc.bgProcs}

\* C22: the job list of a Runner only grows at its end, by a job started just
\* now, so the job at position i is the i-th started since the list was last
\* empty and no job is in it twice; a Reset leaves the list empty; the Runner
\* Subshell returns has an empty list; no job is in the lists of two Runners.
C22_JobList ==
    [][/\ \A rid \in DOMAIN runners :
            LET old == runners[rid].acc.bgProcs
                new == runners'[rid].acc.bgProcs
            IN \/ new = old
               \/ new = <<>>
               \/ \E h \in DOMAIN procs' \ DOMAIN procs : new = Append(old, h)
       /\ \A rid \in DOMAIN runners' :
            LET new == runners'[rid].acc.bgProcs
            IN \A i, j \in DOMAIN new : i < j => new[i] < new[j]
       /\ outcome'.op = "Reset" => runners'[outcome'.rid].acc.bgProcs = <<>>
       /\ \A c \in DOMAIN runners' \ DOMAIN runners : runners'[c].acc.bgProcs = <<>>
       /\ \A a, b \in DOMAIN runners' :
            a # b => JobsOf(runners'[a]) \cap JobsOf(runners'[b]) = {}]_vars

C22_Witness ==
    /\ Len(runners[1].acc.bgProcs) = 2
    /\ 2 \in DOMAIN runners
    /\ Len(runners[2].acc.bgProcs) = 1
    /\ runners[1].acc.bgProcs[1] < runners[1].acc.bgProcs[2]

\* C23: the done channel of a background job is closed at most once, only
\* after the status was stored, and exactly once when its goroutine has
\* ended; a Runner that received from done reads a status that was stored.
C23_SignalAfterExit ==
    /\ \A h \in DOMAIN procs :
          /\ procs[h].done <= 1
          /\ procs[h].done > 0 => procs[h].exit.set
          /\ procs[h].pc = "end" => procs[h].done = 1
    /\ outcome.op = "wait" => outcome.slot.set

C23_Witness ==
    /\ outcome.op = "wait"
    /\ outcome.slot = [val |-> 1, set |-> TRUE]
    /\ procs[runners[outcome.rid].acc.bgProcs[outcome.pid]].pc = "end"

View(rid) == [n \in VarNames |-> ovGet(runners, runners[rid].writeEnv, n)]

\* the text of the variable vr was written by a script of the Runner rid
WrittenBy(vr, rid) == vr.Set /\ vr.Str.w = rid

\* the Runner q descends from the Runner p through Subshell calls
RECURSIVE DescendsFrom(_, _)
DescendsFrom(q, p) ==
    /\ q \in DOMAIN forks
    /\ forks[q].parent = p \/ DescendsFrom(forks[q].parent, p)

\* C3: what a script wrote in a subshell shows in no lookup and no variable
\* snapshot of the Runner it was made from; a subshell shows what its
\* parent showed when Subshell was called, until the subshell itself
\* writes the variable or is Reset; and nothing the parent wrote after the
\* call shows in the subshell.
C3_SubshellIsolation ==
    /\ \A p, q \in DOMAIN runners : DescendsFrom(q, p) =>
          /\ \A n \in VarNames : ~WrittenBy(View(p)[n], q)
          /\ \A n \in DOMAIN runners[p].Vars : ~WrittenBy(runners[p].Vars[n], q)
    /\ \A c \in DOMAIN forks : forks[c].kept =>
          \A n \in VarNames :
             forks[c].view[n].Set => (View(c)[n] = forks[c].view[n] \/ WrittenBy(View(c)[n], c))
    /\ \A c \in DOMAIN forks : \A n \in VarNames :
          WrittenBy(View(c)[n], forks[c].parent) => View(c)[n].Str.k <= forks[c].at

\* a subshell still shows the x its parent wrote before the call, the parent
\* has written x again since, and y, written in the subshell, is not set in
\* the parent
C3_Witness ==
    \E c \in DOMAIN forks :
        LET p == forks[c].parent
        IN /\ WrittenBy(View(c)["x"], p)
           /\ WrittenBy(View(p)["x"], p)
           /\ View(p)["x"].Str.k > forks[c].at
           /\ WrittenBy(View(c)["y"], c)
           /\ ~View(p)["y"].Set


----------------------------------------------------------------------------
(* Properties of the PATH lookup.                                          *)

\* the entries of the list s: one more than its colons, the i-th is what
\* stands before the i-th colon, the empty string if nothing does
ColonsUpTo(s, j) == Cardinality({i \in 1..j : s[i] = Colon})
NumEntries(s) == ColonsUpTo(s, Len(s)) + 1
EntryAt(s, i) ==
    LET at == {j \in 1..Len(s) : s[j] # Colon /\ ColonsUpTo(s, j) = i - 1}
    IN IF at = {} THEN "" ELSE s[CHOOSE j \in at : TRUE]

\* the candidate of an entry: ./name in the current directory for the
\* entries "" and ".", entry/name otherwise
CandidateOf(entry, dir, file) ==
    IF entry \in {"", "."} THEN dir \o <<file>> ELSE Parse(entry).segs \o <<file>>

ExecBit(perm) == \E b \in {1, 8, 64} : (perm \div b) % 2 = 1

RegularExecutable(h, c) == h[c].kind = "file" /\ ExecBit(h[c].perm)
NonDirExecutable(h, c) == h[c].kind \notin {"none", "dir"} /\ ExecBit(h[c].perm)

\* the entries of PATH whose candidate for the command file qualifies
RegularHits(file) ==
    {i \in 1..NumEntries(PATH) : RegularExecutable(host, CandidateOf(EntryAt(PATH, i), cwd, file))}
NonDirHits(file) ==
    {i \in 1..NumEntries(PATH) : NonDirExecutable(host, CandidateOf(EntryAt(PATH, i), cwd, file))}

\* the lookup of file returned the candidate of the first entry of hits, or
\* the not-found error that names file if there is none
Returned(l, file, hits) ==
    IF hits = {}
    THEN l.path = EmptyPath /\ l.err = LookErr("executable file not found in $PATH", file)
    ELSE /\ l.err = Ok
         /\ l.path = P(TRUE, CandidateOf(EntryAt(PATH, MinOf(hits)), cwd, file))

\* C4, as claimed: a lookup returns the candidate of the first entry of
\* PATH that is a regular file with an execute bit, and fails with the
\* not-found error naming the command if no entry has one.
C4_FirstRegularExecutable ==
    last # NoLookup => Returned(last, last.file, RegularHits(last.file))

\* C4, amended: a lookup returns the candidate of the first entry of PATH
\* that exists, is not a directory and has an execute bit (a candidate that
\* is missing, a directory or without an execute bit is passed over), and
\* fails with the not-found error naming the command, never a permission
\* error, if no entry has one.
C4_FirstExecutableNonDirectory ==
    last # NoLookup => Returned(last, last.file, NonDirHits(last.file))

\* a lookup passed over a first candidate that is a directory or a file
\* without an execute bit and returned the candidate of the second entry
C4_Witness ==
    /\ last.file \in Cmds
    /\ last.err = Ok
    /\ NumEntries(PATH) = 2
    /\ host[CandidateOf(EntryAt(PATH, 1), cwd, last.file)] \in
          {[kind |-> "dir", perm |-> 493], [kind |-> "file", perm |-> 420]}
    /\ last.path = P(TRUE, CandidateOf(EntryAt(PATH, 2), cwd, last.file))

\* C5: two lookups of a command under the same PATH, the same current
\* directory and the same virtual filesystem return the same, whatever the
\* host operating system holds.
C5_LookupIgnoresHost ==
    last # NoLookup => last = first[last.file]



\* goroutine t is inside memFS.OpenFile with O_CREATE and without O_TRUNC
OpensKeeping(t) ==
    /\ threads[t].op = "OpenFile"
    /\ threads[t].create
    /\ ~threads[t].trunc

\* from ns to ms every file holds the bytes it held and every name of a
\* directory leads to the file it led to
ContentKept(ns, ms) ==
    /\ Len(ms) >= Len(ns)
    /\ \A n \in DOMAIN ns :
          /\ ms[n].kind = ns[n].kind
          /\ ns[n].kind = "file" => ms[n].content = ns[n].content
          /\ \A name \in DOMAIN ns[n].files :
                /\ name \in DOMAIN ms[n].files
                /\ ms[n].files[name] = ns[n].files[name]

\* C31: no step of an OpenFile with the create-if-absent flag and without
\* the truncate flag discards content: whatever the other goroutines do
\* between its steps, each of its steps leaves every file with the bytes
\* it held, so that what another caller has written whole before OpenFile
\* returns is the content of the file when it returns.
C31_OpenKeepsContent ==
    [][\A t \in Goroutines :
          (threads'[t] # threads[t] /\ OpensKeeping(t)) => ContentKept(nodes, nodes')]_vars

\* an OpenFile with O_CREATE alone missed the file, another goroutine then
\* created it with a payload, and the WriteFile of the empty payload that
\* OpenFile went on to make found the file: OpenFile has returned the file
\* with the payload as its content, and with a size of 0
C31_Witness ==
    \E t, u \in Goroutines :
        /\ t # u
        /\ OpensKeeping(t) /\ threads[t].pc = "done" /\ threads[t].err = ""
        /\ threads[u].op = "WriteFile" /\ threads[u].pc = "done" /\ threads[u].err = ""
        /\ threads[u].path = threads[t].path
        /\ threads[u].data # <<>>
        /\ FileAt(nodes, Root, threads[t].path) # 0
        /\ nodes[FileAt(nodes, Root, threads[t].path)].content = threads[u].data
        /\ nodes[FileAt(nodes, Root, threads[t].path)].size = 0

============================================================================
